---- MODULE Spec2Model ----
(***************************************************************************)
(* Dataset conversion and augmentation engine of VMT (src/app.py), its     *)
(* training function app and the client that waits on a training job.     *)
(*                                                                         *)
(*   SpecSplit     coco_to_yolo_noninteractive over image lists and ratios *)
(*   SpecConvert   coco_to_yolo_noninteractive over documents              *)
(*   SpecReconvert repeated calls with the default ratios (two documents)  *)
(*   SpecLabel     parse_yolo_label on one label line                      *)
(*   SpecAugment   one call of augment_dataset_noninteractive              *)
(*   SpecAnnotate  coco_to_yolo_noninteractive over annotation shapes      *)
(*   SpecUnzip     unzip_and_convert_noninteractive on an archive          *)
(*   SpecMain      main: the four step functions in a row                  *)
(*   SpecBox       one bbox label through flips and photometric entries    *)
(*   SpecService   trigger_training and get_training_status (function app) *)
(*   SpecWait      YOLOTrainingClient.wait_for_completion (api_client.py)  *)
(***************************************************************************)
EXTENDS Integers, Sequences, FiniteSets, TLC

VARIABLES
    \* ---- coco_to_yolo_noninteractive ----
    coco,              \* the annotation document read at app.py:115-116
    train_ratio,       \* argument, <<numerator, denominator>>
    val_ratio,         \* argument, <<numerator, denominator>>
    cpc,               \* position in the function
    category_mapping,  \* app.py:121
    image_ids,         \* app.py:130-131, the shuffled list
    train_ids,         \* app.py:134
    val_ids,           \* app.py:135
    test_ids,          \* app.py:136
    img_to_anns,       \* app.py:138-140, in insertion order
    conv_i,            \* index of the loop at app.py:144
    yolo_fs,           \* files written under output_dir
    cresult,           \* the returned tuple
    prior,             \* category sets and mappings of earlier calls
    zip_file,          \* what the archive of unzip_and_convert_noninteractive holds
    craised,           \* the exception that reached the caller, "" when none did
    \* ---- parse_yolo_label ----
    line,              \* the argument: the tokens of line.strip().split()
    lpc,               \* "call", "returned" or "raised"
    parsed,            \* the outcome
    \* ---- augment_dataset_noninteractive ----
    apc,               \* position in the function
    split_i,           \* index of the loop at app.py:404
    img_files,         \* app.py:413-417, the sorted listing of the current split
    img_i,             \* index of the loop at app.py:426
    split_stats,       \* app.py:419-422
    stats,             \* app.py:397-402
    aug_out,           \* the output tree: the writes made under it, in order
    aug_yaml,          \* data.yaml and classes.txt under the output root
    aug_log,           \* the images handled so far: what was read for each and what
                       \* the derived label files hold
    aresult,           \* the returned pair
    output_dir,        \* argument: the output root
    input_tree,        \* the files under the input root: "intact" or "removed"
    absent_splits,     \* the splits whose images folder was found missing (app.py:410)
    input_manifest,    \* dataset.yaml and data.yaml of the input root as they were when
                       \* the call was made, <<>> until the run comes to look for them
    \* ---- main ----
    mpc,               \* the stage main is about to start, "done" or "aborted"
    started,           \* the stages started so far, in order
    succeeded,         \* the stages that returned, in order
    mlog,              \* what the stages logged on success (app.py:669, 715, 792, 825)
    merror,            \* the exception that ended main, "" when none did
    \* ---- one bbox label through the augmentation entries ----
    box_label,         \* the label of the image: [coords, unit], (cx, cy, bw, bh) as
                       \* numerators over unit
    box_shape,         \* image.shape[:2] of the image: <<orig_h, orig_w>>
    box_log,           \* the entries applied so far: the label each read and the
                       \* coordinates of the line it wrote
    \* ---- the function app (function_app.py, function_app_cpu.py) ----
    svc_log,           \* the requests handled so far: what each met and its answer
    aci_groups,        \* the number of container groups created so far
    \* ---- YOLOTrainingClient.wait_for_completion ----
    wpc,               \* "poll" while the loop runs, "done" once it returned or raised
    timeout,           \* argument: <<>> for None, <<seconds>> otherwise
    poll_interval,     \* argument, seconds
    elapsed,           \* time.time() - start_time, whole seconds
    last_status,       \* status of the last status_data polled, <<>> before the first
    wresult,           \* "none", "returned" or the exception raised
    group              \* the job's container group as Azure holds it now

conv_vars == <<coco, train_ratio, val_ratio, cpc, category_mapping, image_ids,
               train_ids, val_ids, test_ids, img_to_anns, conv_i, yolo_fs,
               cresult, prior, zip_file, craised>>

label_vars == <<line, lpc, parsed>>

aug_vars ==
    <<apc, split_i, img_files, img_i, split_stats, stats, aug_out, aug_yaml, aug_log, aresult,
      output_dir, input_tree, absent_splits, input_manifest>>

main_vars == <<mpc, started, succeeded, mlog, merror>>

box_vars == <<box_label, box_shape, box_log>>

svc_vars == <<svc_log, aci_groups>>

wait_vars == <<wpc, timeout, poll_interval, elapsed, last_status, wresult, group>>

vars == <<conv_vars, label_vars, aug_vars, main_vars, box_vars, svc_vars, wait_vars>>

\* ------------------------------------------------------------------ bounds
MaxImages == 3
MaxDocImages == 2
MaxCatId == 2
MaxAnns == 2
MaxRatioNum == 5
RatioDen == 4
MaxCalls == 2
MaxCoords == 6
MaxAugImages == 2

\* ------------------------------------------------------------- generic helpers
Range(s) == {s[i] : i \in 1..Len(s)}

IsInjective(s) == \A i, j \in 1..Len(s) : s[i] = s[j] => i = j

SeqsUpTo(S, n) == UNION {[1..k -> S] : k \in 0..n}

\* The sequences that list every element of S exactly once.
Permutations_(S) == {s \in [1..Cardinality(S) -> S] : Range(s) = S}

Min2(a, b) == IF a < b THEN a ELSE b

\* Python's s[a:b] for a list s and non-negative a, b (0-based, end exclusive).
PySlice(s, a, b) ==
    LET lo == Min2(a, Len(s))
        hi == Min2(b, Len(s))
    IN  IF hi <= lo THEN <<>> ELSE SubSeq(s, lo + 1, hi)

\* sorted(...) of a set of integers.
RECURSIVE SortedSeq(_)
SortedSeq(S) ==
    IF S = {} THEN <<>>
    ELSE LET m == CHOOSE x \in S : \A y \in S : x <= y
         IN  <<m>> \o SortedSeq(S \ {m})

\* Position (1-based) of the first occurrence of x in s, 0 when absent.
IndexOf(s, x) ==
    IF x \in Range(s) THEN CHOOSE i \in 1..Len(s) : s[i] = x /\ \A j \in 1..(i - 1) : s[j] # x
    ELSE 0

\* A number written to a label file is the count of millionths "{:.6f}" prints.
Million == 1000000

RECURSIVE Gcd(_, _)
Gcd(a, b) == IF b = 0 THEN a ELSE Gcd(b, a % b)

\* f"{v:.6f}" for v = num / den, den > 0: v rounded to six decimals. The factor
\* Million and den share is taken out first, which keeps the products small.
Fmt6(num, den) ==
    LET g == Gcd(Million, den)
    IN  (2 * num * (Million \div g) + (den \div g)) \div (2 * (den \div g))

\* ------------------------------------------------------------ the document
\* An image record: its id; file_name is derived from the id.
FileStem(img_id) == "img" \o ToString(img_id)

FileName(img_id) == FileStem(img_id) \o ".jpg"

CatName(cat_id) == "cat" \o ToString(cat_id)

\* The segmentation field of an annotation: kind is "absent", "list" or "dict" (run
\* length encoding); rings are the polygon rings of a list, in pixels; ints tells that
\* every number of the first ring is a JSON integer (np.array then has an integer dtype).
Seg(kind, rings, ints) == [kind |-> kind, rings |-> rings, ints |-> ints]

NoSeg == Seg("absent", <<>>, FALSE)

Ring1 == <<0, 0, 1, 0, 1, 3>>

Ring2 == <<1, 1, 2, 1, 2, 2>>

Segmentations ==
    {NoSeg, Seg("list", <<>>, FALSE), Seg("dict", <<>>, FALSE), Seg("list", <<Ring1>>, FALSE),
     Seg("list", <<Ring2, Ring1>>, FALSE), Seg("list", <<Ring1>>, TRUE)}

\* ann["bbox"]: [x, y, w, h] in pixels.
Bboxes == {<<1, 0, 1, 3>>}

\* width and height of an image, from the document or from the image file.
DocSize == [width |-> 2, height |-> 4]

Annotation ==
    [image_id : 1..MaxDocImages, category_id : 1..MaxCatId, segmentation : {NoSeg},
     bbox : Bboxes]

\* Annotations of image 1 and category 1 with every kind of segmentation field.
ShapeAnnotations ==
    [image_id : {1}, category_id : {1}, segmentation : Segmentations, bbox : Bboxes]

\* readable = FALSE stands for a document that is missing or is not valid JSON.
UnreadableDocument ==
    [readable |-> FALSE, images |-> <<>>, categories |-> <<>>, annotations |-> <<>>]

\* Documents: images 1..n, the categories in any listing order, annotations that may
\* name an image or a category the document does not have.
Documents ==
    {[readable |-> TRUE, images |-> [i \in 1..n |-> i], categories |-> cats,
      annotations |-> anns] :
        n \in 0..MaxDocImages,
        cats \in {s \in SeqsUpTo(1..MaxCatId, MaxCatId) : IsInjective(s)},
        anns \in SeqsUpTo(Annotation, MaxAnns)}
    \cup {UnreadableDocument}

\* Documents for the split, which reads the image list alone: up to MaxImages images,
\* one annotation per image, of the only category or of one the document lacks.
SplitDocuments ==
    {[readable |-> TRUE, images |-> [i \in 1..n |-> i], categories |-> <<1>>,
      annotations |-> [i \in 1..n |-> [image_id |-> i, category_id |-> c,
                                       segmentation |-> NoSeg,
                                       bbox |-> CHOOSE b \in Bboxes : TRUE]]] :
        n \in 0..MaxImages, c \in 1..MaxCatId}
    \cup {UnreadableDocument}

\* Documents for the label lines: one image, one category, annotations of every shape.
ShapeDocuments ==
    {[readable |-> TRUE, images |-> <<1>>, categories |-> <<1>>, annotations |-> anns] :
        anns \in SeqsUpTo(ShapeAnnotations, MaxAnns)}

Ratios == {<<k, RatioDen>> : k \in 0..MaxRatioNum}

\* The ratios tried on full documents: a quarter and a half.
DocRatios == {<<1, 4>>, <<2, 4>>}

DefaultTrainRatio == <<7, 10>>

DefaultValRatio == <<2, 10>>

\* ---------------------------------------------------- conversion, pure parts
\* categories = {cat["id"]: cat["name"] ...}: the keys in insertion order.
CategoryKeys(doc) == doc.categories

\* category_mapping = {cat_id: idx for idx, cat_id in enumerate(categories.keys())}
CategoryMapping(doc) ==
    [c \in Range(CategoryKeys(doc)) |-> IndexOf(CategoryKeys(doc), c) - 1]

\* class_names = [categories[k] for k in sorted(categories.keys())]
ClassNames(doc) ==
    LET ks == SortedSeq(Range(CategoryKeys(doc)))
    IN  [i \in 1..Len(ks) |-> CatName(ks[i])]

\* Variant: round(len(image_ids) * ratio) instead of int(...).
SplitCount_round(n, ratio) == (2 * n * ratio[1] + ratio[2]) \div (2 * ratio[2])

\* int(len(image_ids) * ratio) for a ratio num/den >= 0.
SplitCount(n, ratio) == (n * ratio[1]) \div ratio[2]

NTrain(ids, tr) == SplitCount(Len(ids), tr)

NVal(ids, vr) == SplitCount(Len(ids), vr)

TrainIds(ids, tr, vr) == Range(PySlice(ids, 0, NTrain(ids, tr)))

ValIds(ids, tr, vr) == Range(PySlice(ids, NTrain(ids, tr), NTrain(ids, tr) + NVal(ids, vr)))

\* Variant: the test slice starts at n_train, forgetting n_val.
TestIds_from_train(ids, tr, vr) == Range(PySlice(ids, NTrain(ids, tr), Len(ids)))

TestIds(ids, tr, vr) == Range(PySlice(ids, NTrain(ids, tr) + NVal(ids, vr), Len(ids)))

\* img_to_anns[ann["image_id"]].append(ann): groups in first-appearance order.
RECURSIVE GroupAnns(_, _)
GroupAnns(anns, acc) ==
    IF anns = <<>> THEN acc
    ELSE LET a == Head(anns)
             k == CHOOSE i \in 0..Len(acc) :
                     IF \E j \in 1..Len(acc) : acc[j].image_id = a.image_id
                     THEN i > 0 /\ acc[i].image_id = a.image_id
                     ELSE i = 0
         IN  IF k = 0
             THEN GroupAnns(Tail(anns), Append(acc, [image_id |-> a.image_id, anns |-> <<a>>]))
             ELSE GroupAnns(Tail(anns),
                            [acc EXCEPT ![k].anns = Append(acc[k].anns, a)])

\* split chosen at app.py:157-162
SplitOf(img_id, tr_ids, v_ids) ==
    IF img_id \in tr_ids THEN "train"
    ELSE IF img_id \in v_ids THEN "valid"
    ELSE "test"

\* The test at app.py:179-183.
HasPolygon(ann) == ann.segmentation.kind = "list" /\ Len(ann.segmentation.rings) > 0

\* Whether the iteration for ann raises: category_mapping[cat_id] on an unknown
\* category (app.py:176), or poly[:, 0] /= width on an array of integers (app.py:185),
\* which numpy refuses to divide in place.
AnnRaises(ann, mapping) ==
    \/ ann.category_id \notin DOMAIN mapping
    \/ HasPolygon(ann) /\ ann.segmentation.ints

\* app.py:184-188: the first ring, x over width and y over height.
PolygonLine(class_id, ann, size) ==
    LET ring == ann.segmentation.rings[1]
    IN  [cls |-> class_id, kind |-> "poly",
         coords |-> [k \in 1..Len(ring) |->
                        Fmt6(ring[k], IF k % 2 = 1 THEN size.width ELSE size.height)]]

\* app.py:191-194: cx, cy, nw, nh from ann["bbox"].
BboxLine(class_id, ann, size) ==
    LET b == ann.bbox
    IN  [cls |-> class_id, kind |-> "bbox",
         coords |-> <<Fmt6(2 * b[1] + b[3], 2 * size.width),
                      Fmt6(2 * b[2] + b[4], 2 * size.height),
                      Fmt6(b[3], size.width), Fmt6(b[4], size.height)>>]

\* The label lines written for one image until an annotation raises: one line per
\* annotation, class_id = category_mapping[cat_id].
RECURSIVE LabelLines(_, _)
LabelLines(anns, mapping) ==
    IF anns = <<>> THEN <<>>
    ELSE IF AnnRaises(Head(anns), mapping) THEN <<>>
    ELSE <<IF HasPolygon(Head(anns))
           THEN PolygonLine(mapping[Head(anns).category_id], Head(anns), DocSize)
           ELSE BboxLine(mapping[Head(anns).category_id], Head(anns), DocSize)>>
         \o LabelLines(Tail(anns), mapping)

LabelLinesFail(anns, mapping) == \E i \in 1..Len(anns) : AnnRaises(anns[i], mapping)

FailResult == <<FALSE, 0, 0, 0, <<>>>>

NoResult == <<FALSE, -1, -1, -1, <<>>>>

\* The output tree: copied images and label files per split, classes.txt, data.yaml.
\* classes_txt and data_yaml are <<>> while the file does not exist, <<content>> after.
EmptyFs == [images |-> {}, labels |-> <<>>, classes_txt |-> <<>>, data_yaml |-> <<>>]

LabelPath(split, img_id) == <<split, FileStem(img_id) \o ".txt">>

ImagePath(split, img_id) == <<split, FileName(img_id)>>

\* open(label_path, "w") followed by the writes: the file holds exactly `lines`.
WriteLabelFile(fs, path, lines) ==
    [fs EXCEPT !.labels = [p \in (DOMAIN fs.labels) \cup {path} |->
                              IF p = path THEN lines ELSE fs.labels[p]]]

CopyImage(fs, path) == [fs EXCEPT !.images = fs.images \cup {path}]

\* Variant: the validation path named after the manifest key.
DataYaml_val_key(names) ==
    [train |-> "train/images", val |-> "val/images", test |-> "test/images",
     nc |-> Len(names), names |-> names]

DataYaml(names) ==
    [train |-> "train/images", val |-> "valid/images", test |-> "test/images",
     nc |-> Len(names), names |-> names]

\* ------------------------------------------------------- conversion, actions
ConvIdle ==
    /\ category_mapping = <<>>
    /\ image_ids = <<>>
    /\ train_ids = {}
    /\ val_ids = {}
    /\ test_ids = {}
    /\ img_to_anns = <<>>
    /\ conv_i = 0
    /\ yolo_fs = EmptyFs
    /\ cresult = NoResult
    /\ craised = ""

ConvInit(docs, trs, vrs) ==
    /\ coco \in docs
    /\ train_ratio \in trs
    /\ val_ratio \in vrs
    /\ cpc = "load"
    /\ prior = <<>>
    /\ zip_file = "none"
    /\ ConvIdle

\* What the archive holds: no readable archive at all, files but no annotation
\* document, or an annotation document (app.py:235-251).
ZipFiles == {"bad", "no_document", "document"}

\* unzip_and_convert_noninteractive, app.py:233-260, up to the call at 254: extracting
\* and the search for coco.json happen outside any try.
ConvUnzip ==
    /\ cpc = "unzip"
    /\ \/ /\ zip_file = "bad"
          /\ cpc' = "raised"
          /\ craised' = "BadZipFile"
       \/ /\ zip_file = "no_document"
          /\ cpc' = "raised"
          /\ craised' = "FileNotFoundError"
       \/ /\ zip_file = "document"
          /\ cpc' = "load"
          /\ UNCHANGED craised
    /\ UNCHANGED <<coco, train_ratio, val_ratio, category_mapping, image_ids, train_ids,
                   val_ids, test_ids, img_to_anns, conv_i, yolo_fs, cresult, prior, zip_file>>
    /\ UNCHANGED <<label_vars, aug_vars, main_vars, box_vars, svc_vars, wait_vars>>

\* except Exception: return False, 0, 0, 0, []  (app.py:217-219)
ConvRaise ==
    /\ cpc' = "failed"
    /\ cresult' = FailResult

\* app.py:115-127: read the document, build categories and category_mapping.
ConvLoad ==
    /\ cpc = "load"
    /\ \/ /\ ~coco.readable
          /\ ConvRaise
          /\ UNCHANGED category_mapping
       \/ /\ coco.readable
          /\ category_mapping' = CategoryMapping(coco)
          /\ cpc' = "split"
          /\ UNCHANGED cresult
    /\ UNCHANGED <<coco, train_ratio, val_ratio, image_ids, train_ids, val_ids,
                   test_ids, img_to_anns, conv_i, yolo_fs, prior, zip_file, craised>>
    /\ UNCHANGED <<label_vars, aug_vars, main_vars, box_vars, svc_vars, wait_vars>>

\* app.py:129-142: shuffle the ids, cut the three sets, group the annotations.
ConvSplit ==
    /\ cpc = "split"
    /\ \E shuffled \in Permutations_(Range(coco.images)) :
          /\ image_ids' = shuffled
          /\ train_ids' = TrainIds(shuffled, train_ratio, val_ratio)
          /\ val_ids' = ValIds(shuffled, train_ratio, val_ratio)
          /\ test_ids' = TestIds(shuffled, train_ratio, val_ratio)
    /\ img_to_anns' = GroupAnns(coco.annotations, <<>>)
    /\ conv_i' = 1
    /\ cpc' = "convert"
    /\ UNCHANGED <<coco, train_ratio, val_ratio, category_mapping, yolo_fs, cresult, prior,
                   zip_file, craised>>
    /\ UNCHANGED <<label_vars, aug_vars, main_vars, box_vars, svc_vars, wait_vars>>

\* app.py:144-194: one iteration of the loop over img_to_anns. has_size: the image
\* record carries width and height; src_exists: the source image file is there.
ConvImage ==
    /\ cpc = "convert"
    /\ conv_i <= Len(img_to_anns)
    /\ LET img_id == img_to_anns[conv_i].image_id
           anns == img_to_anns[conv_i].anns
           split == SplitOf(img_id, train_ids, val_ids)
       IN  \E has_size, src_exists \in BOOLEAN :
             \/ /\ img_id \notin Range(coco.images) \/ (~has_size /\ ~src_exists)
                /\ ConvRaise
                /\ UNCHANGED <<yolo_fs, conv_i>>
             \/ /\ img_id \in Range(coco.images)
                /\ has_size \/ src_exists
                /\ LET copied == IF src_exists THEN CopyImage(yolo_fs, ImagePath(split, img_id))
                                 ELSE yolo_fs
                   IN  yolo_fs' = WriteLabelFile(copied, LabelPath(split, img_id),
                                                 LabelLines(anns, category_mapping))
                /\ \/ /\ LabelLinesFail(anns, category_mapping)
                      /\ ConvRaise
                      /\ UNCHANGED conv_i
                   \/ /\ ~LabelLinesFail(anns, category_mapping)
                      /\ conv_i' = conv_i + 1
                      /\ UNCHANGED <<cpc, cresult>>
    /\ UNCHANGED <<coco, train_ratio, val_ratio, category_mapping, image_ids, train_ids,
                   val_ids, test_ids, img_to_anns, prior, zip_file, craised>>
    /\ UNCHANGED <<label_vars, aug_vars, main_vars, box_vars, svc_vars, wait_vars>>

\* app.py:196-215: classes.txt, data.yaml and the returned tuple.
ConvManifest ==
    /\ cpc = "convert"
    /\ conv_i > Len(img_to_anns)
    /\ yolo_fs' = [yolo_fs EXCEPT !.classes_txt = <<ClassNames(coco)>>,
                                  !.data_yaml = <<DataYaml(ClassNames(coco))>>]
    /\ cresult' = <<TRUE, Cardinality(train_ids), Cardinality(val_ids),
                    Cardinality(test_ids), ClassNames(coco)>>
    /\ cpc' = "done"
    /\ UNCHANGED <<coco, train_ratio, val_ratio, category_mapping, image_ids, train_ids,
                   val_ids, test_ids, img_to_anns, conv_i, prior, zip_file, craised>>
    /\ UNCHANGED <<label_vars, aug_vars, main_vars, box_vars, svc_vars, wait_vars>>

\* A further call of the function, on another document into a fresh output root;
\* the category set and mapping of the finished call are remembered.
ConvCall ==
    /\ cpc \in {"done", "failed"}
    /\ Len(prior) < MaxCalls - 1
    /\ prior' = Append(prior, [loaded |-> coco.readable,
                               cats |-> Range(coco.categories),
                               mapping |-> category_mapping])
    /\ coco' \in Documents
    /\ cpc' = "load"
    /\ category_mapping' = <<>>
    /\ image_ids' = <<>>
    /\ train_ids' = {}
    /\ val_ids' = {}
    /\ test_ids' = {}
    /\ img_to_anns' = <<>>
    /\ conv_i' = 0
    /\ yolo_fs' = EmptyFs
    /\ cresult' = NoResult
    /\ UNCHANGED <<train_ratio, val_ratio, zip_file, craised>>
    /\ UNCHANGED <<label_vars, aug_vars, main_vars, box_vars, svc_vars, wait_vars>>

ConvNext == ConvLoad \/ ConvSplit \/ ConvImage \/ ConvManifest

\* ------------------------------------------------------------ parse_yolo_label
\* A token of the line: an integer literal ("1"), a float literal ("0.5") or text
\* that is no number ("abc"); val is the number it denotes.
Tokens == [kind : {"int", "float"}, val : {0, 1}] \cup {[kind |-> "text", val |-> 0]}

LabelLinesOfTokens == SeqsUpTo(Tokens, 1 + MaxCoords)

IntOk(tok) == tok.kind = "int"

FloatOk(tok) == tok.kind \in {"int", "float"}

\* The outcome of a call: exc is "none" when the call returned, else the exception;
\* bbox and poly are <<>> for None and <<value>> otherwise.
Raised(exc) == [exc |-> exc, class |-> 0, bbox |-> <<>>, poly |-> <<>>]

\* Variant: no special case for four coordinates (app.py:271-272 left out).
ParseYoloLabel_no_bbox(parts) ==
    IF parts = <<>> THEN Raised("IndexError")
    ELSE IF ~IntOk(parts[1]) THEN Raised("ValueError")
    ELSE IF \E i \in 2..Len(parts) : ~FloatOk(parts[i]) THEN Raised("ValueError")
    ELSE LET coords == [i \in 1..(Len(parts) - 1) |-> parts[i + 1].val]
         IN  IF Len(coords) % 2 = 1 THEN Raised("IndexError")
             ELSE [exc |-> "none", class |-> parts[1].val, bbox |-> <<>>,
                   poly |-> <<[k \in 1..(Len(coords) \div 2) |->
                                 <<coords[2 * k - 1], coords[2 * k]>>]>>]

\* parse_yolo_label, app.py:267-274, on parts = line.strip().split().
ParseYoloLabel(parts) ==
    IF parts = <<>> THEN Raised("IndexError")                         \* parts[0]
    ELSE IF ~IntOk(parts[1]) THEN Raised("ValueError")                \* int(parts[0])
    ELSE IF \E i \in 2..Len(parts) : ~FloatOk(parts[i]) THEN Raised("ValueError")
    ELSE LET coords == [i \in 1..(Len(parts) - 1) |-> parts[i + 1].val]
         IN  IF Len(coords) = 4
             THEN [exc |-> "none", class |-> parts[1].val, bbox |-> <<coords>>, poly |-> <<>>]
             ELSE IF Len(coords) % 2 = 1 THEN Raised("IndexError")    \* coords[i + 1]
             ELSE [exc |-> "none", class |-> parts[1].val, bbox |-> <<>>,
                   poly |-> <<[k \in 1..(Len(coords) \div 2) |->
                                 <<coords[2 * k - 1], coords[2 * k]>>]>>]

LabelInit ==
    /\ line \in LabelLinesOfTokens
    /\ lpc = "call"
    /\ parsed = Raised("none")

LabelParked ==
    /\ line = <<>>
    /\ lpc = "idle"
    /\ parsed = Raised("none")

LabelReturn ==
    /\ lpc = "call"
    /\ ParseYoloLabel(line).exc = "none"
    /\ parsed' = ParseYoloLabel(line)
    /\ lpc' = "returned"
    /\ UNCHANGED line
    /\ UNCHANGED <<conv_vars, aug_vars, main_vars, box_vars, svc_vars, wait_vars>>

LabelRaise ==
    /\ lpc = "call"
    /\ ParseYoloLabel(line).exc # "none"
    /\ parsed' = ParseYoloLabel(line)
    /\ lpc' = "raised"
    /\ UNCHANGED line
    /\ UNCHANGED <<conv_vars, aug_vars, main_vars, box_vars, svc_vars, wait_vars>>

LabelNext == LabelReturn \/ LabelRaise

ConvParked ==
    /\ coco = UnreadableDocument
    /\ train_ratio = DefaultTrainRatio
    /\ val_ratio = DefaultValRatio
    /\ cpc = "idle"
    /\ prior = <<>>
    /\ zip_file = "none"
    /\ ConvIdle

\* --------------------------------------------- augment_dataset_noninteractive
Splits == <<"train", "valid", "test">>

\* geo_augs, app.py:345-366: nine named entries, rot12 .. rot348, zoom_90 .. zoom_40.
BaseGeoAugs ==
    <<"hflip", "vflip", "rot90", "rot180", "rot270",
      "shear_x15", "shear_x-15", "shear_y15", "shear_y-15">>

FineRotations == [k \in 1..29 |-> "rot" \o ToString(12 * k)]

ZoomOuts == [k \in 1..6 |-> "zoom_" \o ToString(100 - 10 * k)]

GeoAugs == BaseGeoAugs \o FineRotations \o ZoomOuts

\* photo_augs, app.py:368-395
PhotoAugs ==
    <<"brightness_contrast", "hsv_shift", "rgb_shift", "clahe", "gamma", "motion_blur",
      "gauss_noise", "low_light", "overexposed", "reflection_reduce", "low_res">>

\* stats["total_augmentations"], app.py:400
TotalAugmentations == Len(GeoAugs) + Len(PhotoAugs)

\* The image files a split's folder may hold, in the order sorted() gives their paths.
ImageUniverse ==
    <<[stem |-> "a", ext |-> "jpg"], [stem |-> "a", ext |-> "png"],
      [stem |-> "a_hflip", ext |-> "jpg"]>>

Name(f) == f.stem \o "." \o f.ext

\* The sorted listings of at most n files.
Listings(n) ==
    {s \in SeqsUpTo(1..Len(ImageUniverse), n) : \A i \in 1..(Len(s) - 1) : s[i] < s[i + 1]}

ListingFiles(s) == [i \in 1..Len(s) |-> ImageUniverse[s[i]]]

\* Label lines: a bbox, a three-point polygon, a line with an odd number of
\* coordinates, a class index alone, and a blank line.
Tok(kind, val) == [kind |-> kind, val |-> val]

BoxLine ==
    <<Tok("int", 0), Tok("float", 1), Tok("float", 1), Tok("float", 1), Tok("float", 1)>>

PolyLine ==
    <<Tok("int", 1), Tok("float", 0), Tok("float", 0), Tok("float", 1), Tok("float", 0),
      Tok("float", 1), Tok("float", 1)>>

OddLine == <<Tok("int", 0), Tok("float", 1), Tok("float", 1), Tok("float", 1)>>

ClassOnlyLine == <<Tok("int", 0)>>

BlankLine == <<>>

\* Two coordinates: parsed as a polygon of one point.
OnePointLine == <<Tok("int", 1), Tok("float", 1), Tok("float", 0)>>

\* A three-point polygon with a vertex outside the image (x = 2.0).
WidePolyLine ==
    <<Tok("int", 1), Tok("float", 2), Tok("float", 0), Tok("float", 1), Tok("float", 0),
      Tok("float", 1), Tok("float", 1)>>

\* A label file: <<>> when absent, else <<its lines>>.
LabelFiles ==
    { <<>>,
      << <<>> >>,
      << <<BoxLine>> >>,
      << <<PolyLine>> >>,
      << <<PolyLine, BoxLine>> >>,
      << <<BlankLine, BoxLine>> >>,
      << <<OddLine>> >>,
      << <<ClassOnlyLine>> >>,
      << <<BoxLine, ClassOnlyLine>> >>,
      << <<OnePointLine>> >>,
      << <<WidePolyLine>> >> }

\* app.py:433-438: the labels parsed from the non-blank lines.
ParsedLabels(label_file) ==
    IF label_file = <<>> THEN <<>>
    ELSE LET ls == SelectSeq(label_file[1], LAMBDA l : l # <<>>)
         IN  [i \in 1..Len(ls) |-> ParseYoloLabel(ls[i])]

ParseRaises(label_file) ==
    \E i \in 1..Len(ParsedLabels(label_file)) : ParsedLabels(label_file)[i].exc # "none"

\* app.py:450-465: bboxes_pascal, keypoints and poly_splits, as far as control needs them.
HasBoxes(labels) == \E i \in 1..Len(labels) : labels[i].bbox # <<>>

HasKeypoints(labels) ==
    \E i \in 1..Len(labels) :
        labels[i].bbox = <<>> /\ labels[i].poly # <<>> /\ Len(labels[i].poly[1]) > 0

\* A polygon without vertices: polygon_to_bbox_norm raises on it (min of an empty list).
HasEmptyPoly(labels) ==
    \E i \in 1..Len(labels) :
        labels[i].bbox = <<>> /\ labels[i].poly # <<>> /\ Len(labels[i].poly[1]) = 0

\* app.py:468
GeoRuns(labels) == HasBoxes(labels) \/ HasKeypoints(labels)

\* ---- label geometry. A parsed coordinate is the number its token denotes; pixel
\* coordinates are kept doubled (so that bw / 2 stays whole); the coordinates of a
\* new label are fractions <<numerator, denominator>>; a written coordinate is the
\* number of millionths that "{:.6f}" prints.
\* image.shape[:2], app.py:431: <<orig_h, orig_w>> of a decoded image.
ImageShape == <<4, 2>>

SeqMin(s) == CHOOSE x \in Range(s) : \A y \in Range(s) : x <= y

SeqMax(s) == CHOOSE x \in Range(s) : \A y \in Range(s) : x >= y

\* The labels taken by the two branches of the loop at app.py:450-465.
BoxLabels(labels) == SelectSeq(labels, LAMBDA l : l.bbox # <<>>)

PolyLabels(labels) == SelectSeq(labels, LAMBDA l : l.bbox = <<>> /\ l.poly # <<>>)

\* Variant: (cx, cy) taken for the top left corner of the box.
BboxesPascal_top_left(labels, shape) ==
    [i \in 1..Len(BoxLabels(labels)) |->
        LET b == BoxLabels(labels)[i].bbox[1]
        IN  <<2 * b[1] * shape[2], 2 * b[2] * shape[1],
              2 * (b[1] + b[3]) * shape[2], 2 * (b[2] + b[4]) * shape[1]>>]

\* bboxes_pascal, app.py:452-457: [x1, y1, x2, y2] in (doubled) pixels.
BboxesPascal(labels, shape) ==
    [i \in 1..Len(BoxLabels(labels)) |->
        LET b == BoxLabels(labels)[i].bbox[1]
        IN  <<(2 * b[1] - b[3]) * shape[2], (2 * b[2] - b[4]) * shape[1],
              (2 * b[1] + b[3]) * shape[2], (2 * b[2] + b[4]) * shape[1]>>]

\* bboxes_cls, app.py:458
BboxesCls(labels) == [i \in 1..Len(BoxLabels(labels)) |-> BoxLabels(labels)[i].class]

\* abs_poly, app.py:460, of one polygon label.
AbsPoly(lab, shape) ==
    [k \in 1..Len(lab.poly[1]) |->
        <<2 * lab.poly[1][k][1] * shape[2], 2 * lab.poly[1][k][2] * shape[1]>>]

\* keypoints, app.py:461-464: the vertices of every polygon, one list.
RECURSIVE Keypoints(_, _)
Keypoints(polys, shape) ==
    IF polys = <<>> THEN <<>>
    ELSE AbsPoly(Head(polys), shape) \o Keypoints(Tail(polys), shape)

\* poly_splits, app.py:465: (class, start, length) of every polygon.
RECURSIVE PolySplits(_, _)
PolySplits(polys, start) ==
    IF polys = <<>> THEN <<>>
    ELSE <<<<Head(polys).class, start, Len(Head(polys).poly[1])>>>>
         \o PolySplits(Tail(polys), start + Len(Head(polys).poly[1]))

\* reconstruct_polygons_from_keypoints, app.py:289-297
ReconstructPolygonsFromKeypoints(keypoints, poly_splits) ==
    [i \in 1..Len(poly_splits) |->
        <<poly_splits[i][1],
          PySlice(keypoints, poly_splits[i][2], poly_splits[i][2] + poly_splits[i][3])>>]

\* polygon_to_bbox_norm, app.py:300-313, on a list of at least one point.
PolygonToBboxNorm(poly_pts, img_w, img_h) ==
    LET xs == [k \in 1..Len(poly_pts) |-> poly_pts[k][1]]
        ys == [k \in 1..Len(poly_pts) |-> poly_pts[k][2]]
    IN  <<<<SeqMin(xs) + SeqMax(xs), 4 * img_w>>, <<SeqMin(ys) + SeqMax(ys), 4 * img_h>>,
          <<SeqMax(xs) - SeqMin(xs), 2 * img_w>>, <<SeqMax(ys) - SeqMin(ys), 2 * img_h>>>>

\* A new label: bbox and poly are <<>> for None, <<value>> otherwise.
BboxLabel(cls, bbox) == [class |-> cls, bbox |-> <<bbox>>, poly |-> <<>>]

PolyLabel(cls, norm) == [class |-> cls, bbox |-> <<>>, poly |-> <<norm>>]

\* Variant: the width and the height of the image taken for each other.
BoxToLabel_swapped(cls, box, new_w, new_h) ==
    BboxLabel(cls, <<<<box[1] + box[3], 4 * new_h>>, <<box[2] + box[4], 4 * new_w>>,
                     <<box[3] - box[1], 2 * new_h>>, <<box[4] - box[2], 2 * new_w>>>>)

\* app.py:497-508 and 565-576: a pixel box back to (cx, cy, bw, bh).
BoxToLabel(cls, box, new_w, new_h) ==
    BboxLabel(cls, <<<<box[1] + box[3], 4 * new_w>>, <<box[2] + box[4], 4 * new_h>>,
                     <<box[3] - box[1], 2 * new_w>>, <<box[4] - box[2], 2 * new_h>>>>)

\* max(min(v / size, 1.0), 0.0), app.py:517-518, as a numerator over 2 * size.
Clamp01(v, size) == IF v < 0 THEN 0 ELSE IF v > 2 * size THEN 2 * size ELSE v

\* Variant: a polygon of any length is kept as a polygon.
IsPolygon_any(norm) == Len(norm) >= 0

\* if len(norm) >= 3, app.py:522 and 581
IsPolygon(norm) == Len(norm) >= 3

\* app.py:514-542: the label of one reconstructed polygon after a geometric entry.
GeoPolyLabel(cls, pts, new_w, new_h) ==
    LET norm == [k \in 1..Len(pts) |->
                    <<<<Clamp01(pts[k][1], new_w), 2 * new_w>>,
                      <<Clamp01(pts[k][2], new_h), 2 * new_h>>>>]
    IN  IF IsPolygon(norm) THEN PolyLabel(cls, norm)
        ELSE BboxLabel(cls, PolygonToBboxNorm(
                 [k \in 1..Len(norm) |-> <<norm[k][1][1], norm[k][2][1]>>], new_w, new_h))

\* app.py:578-597: the label of one polygon after a photometric entry.
PhotoPolyLabel(cls, pts, new_w, new_h) ==
    LET norm == [k \in 1..Len(pts) |-> <<<<pts[k][1], 2 * new_w>>, <<pts[k][2], 2 * new_h>>>>]
    IN  IF IsPolygon(norm) THEN PolyLabel(cls, norm)
        ELSE BboxLabel(cls, PolygonToBboxNorm(pts, new_w, new_h))

\* What transform(image=..., bboxes=..., keypoints=...) of a geometric entry may give
\* back (app.py:482-488): the library keeps every keypoint (remove_invisible=False)
\* wherever it lands and may filter boxes out. "kept": everything stays where it was;
\* "moved": every keypoint lands right of and above the image, no box is left.
GeoOutcomes == {"kept", "moved"}

Transformed(outcome, bboxes, bboxes_cls, keypoints, shape) ==
    IF outcome = "kept"
    THEN [bboxes |-> bboxes, bboxes_cls |-> bboxes_cls, keypoints |-> keypoints, shape |-> shape]
    ELSE [bboxes |-> <<>>, bboxes_cls |-> <<>>,
          keypoints |-> [k \in 1..Len(keypoints) |->
                            <<keypoints[k][1] + 4 * shape[2], keypoints[k][2] - 4 * shape[1]>>],
          shape |-> shape]

\* new_labels of a geometric entry, app.py:493-542: the boxes, then the polygons.
GeoLabels(labels, shape, outcome) ==
    LET polys == PolyLabels(labels)
        t == Transformed(outcome, BboxesPascal(labels, shape), BboxesCls(labels),
                         Keypoints(polys, shape), shape)
        new_w == t.shape[2]
        new_h == t.shape[1]
        rec == ReconstructPolygonsFromKeypoints(t.keypoints, PolySplits(polys, 0))
    IN  [i \in 1..Len(t.bboxes) |-> BoxToLabel(t.bboxes_cls[i], t.bboxes[i], new_w, new_h)]
        \o [i \in 1..Len(rec) |-> GeoPolyLabel(rec[i][1], rec[i][2], new_w, new_h)]

\* new_labels of a photometric entry, app.py:563-597; the image keeps its shape.
PhotoLabels(labels, shape) ==
    LET polys == PolyLabels(labels)
        boxes == BboxesPascal(labels, shape)
        keypoints == Keypoints(polys, shape)
        splits == PolySplits(polys, 0)
        new_w == shape[2]
        new_h == shape[1]
    IN  [i \in 1..Len(boxes) |-> BoxToLabel(BboxesCls(labels)[i], boxes[i], new_w, new_h)]
        \o [i \in 1..Len(splits) |->
               PhotoPolyLabel(splits[i][1],
                              PySlice(keypoints, splits[i][2], splits[i][2] + splits[i][3]),
                              new_w, new_h)]

\* save_yolo_label, app.py:277-286: one line per label, every number with six decimals.
SaveYoloLabel(labels) ==
    [i \in 1..Len(labels) |->
        IF labels[i].bbox # <<>>
        THEN [cls |-> labels[i].class, kind |-> "bbox",
              coords |-> [k \in 1..4 |-> Fmt6(labels[i].bbox[1][k][1], labels[i].bbox[1][k][2])]]
        ELSE [cls |-> labels[i].class, kind |-> "poly",
              coords |-> [k \in 1..(2 * Len(labels[i].poly[1])) |->
                             LET c == labels[i].poly[1][(k + 1) \div 2][2 - (k % 2)]
                             IN  Fmt6(c[1], c[2])]]]

\* One write: the path written and who wrote it.
WriteOf(split, dir, file_name, src, kind, aug) ==
    [path |-> <<split, dir, file_name>>, src |-> src, kind |-> kind, aug |-> aug]

\* app.py:440-442: the verbatim copies.
OrigWrites(split, f, label_file) ==
    <<WriteOf(split, "images", Name(f), <<split, Name(f)>>, "orig", "")>>
    \o (IF label_file # <<>>
        THEN <<WriteOf(split, "labels", f.stem \o ".txt", <<split, Name(f)>>, "orig", "")>>
        ELSE <<>>)

\* app.py:544-549 (geometric) and 559-601 (photometric): the image, then the labels.
DerivedWrites(split, f, kind, augs) ==
    [i \in 1..(2 * Len(augs)) |->
        LET aug == augs[(i + 1) \div 2]
        IN  IF i % 2 = 1
            THEN WriteOf(split, "images", f.stem \o "_" \o aug \o ".jpg",
                         <<split, Name(f)>>, kind, aug)
            ELSE WriteOf(split, "labels", f.stem \o "_" \o aug \o ".txt",
                         <<split, Name(f)>>, kind, aug)]

\* The derived writes of every (split, file, kind), tabulated once.
DerivedTable ==
    [split \in Range(Splits), f \in Range(ImageUniverse), kind \in {"geo", "photo"} |->
        DerivedWrites(split, f, kind, IF kind = "geo" THEN GeoAugs ELSE PhotoAugs)]

GeoWrites(split, f) == DerivedTable[split, f, "geo"]

PhotoWrites(split, f) == DerivedTable[split, f, "photo"]

\* Variant: the verbatim copies are made before the decode check.
ImageWrites_copy_first(split, f, decoded, label_file) ==
    LET labels == ParsedLabels(label_file)
    IN  IF ~decoded THEN OrigWrites(split, f, label_file)
        ELSE IF ParseRaises(label_file) THEN <<>>
        ELSE OrigWrites(split, f, label_file)
             \o (IF GeoRuns(labels) /\ ~HasEmptyPoly(labels)
                 THEN GeoWrites(split, f) ELSE <<>>)
             \o (IF HasEmptyPoly(labels)
                 THEN (IF GeoRuns(labels) THEN <<>>
                       ELSE <<PhotoWrites(split, f)[1]>>)
                 ELSE PhotoWrites(split, f))

\* The writes of one iteration of the image loop (app.py:426-602), in order, up to the
\* point where it raises: nothing for an image that does not decode (continue at 430)
\* or whose labels do not parse (438 precedes the copies); with a vertex-less polygon
\* the first geometric entry raises before its writes, or, when no geometric entry
\* runs, the first photometric entry raises after writing its image.
ImageWrites(split, f, decoded, label_file) ==
    LET labels == ParsedLabels(label_file)
    IN  IF ~decoded THEN <<>>
        ELSE IF ParseRaises(label_file) THEN <<>>
        ELSE OrigWrites(split, f, label_file)
             \o (IF GeoRuns(labels) /\ ~HasEmptyPoly(labels)
                 THEN GeoWrites(split, f) ELSE <<>>)
             \o (IF HasEmptyPoly(labels)
                 THEN (IF GeoRuns(labels) THEN <<>>
                       ELSE <<PhotoWrites(split, f)[1]>>)
                 ELSE PhotoWrites(split, f))

\* Whether the iteration raises (the exception leaves the loops, app.py:636).
ImageRaises(decoded, label_file) ==
    decoded /\ (ParseRaises(label_file) \/ HasEmptyPoly(ParsedLabels(label_file)))

\* Whether the geometric entries run to their writes in this iteration.
GeoWritten(decoded, label_file) ==
    /\ decoded
    /\ ~ImageRaises(decoded, label_file)
    /\ GeoRuns(ParsedLabels(label_file))

\* What save_yolo_label puts into the label file of a geometric entry (app.py:547):
\* <<>> when no such file is written, else <<its lines>>.
GeoLabelFile(decoded, label_file, outcome) ==
    IF GeoWritten(decoded, label_file)
    THEN <<SaveYoloLabel(GeoLabels(ParsedLabels(label_file), ImageShape, outcome))>>
    ELSE <<>>

\* What save_yolo_label puts into the label file of a photometric entry (app.py:599).
PhotoLabelFile(decoded, label_file) ==
    IF decoded /\ ~ImageRaises(decoded, label_file)
    THEN <<SaveYoloLabel(PhotoLabels(ParsedLabels(label_file), ImageShape))>>
    ELSE <<>>

\* How often split_stats["augmented"] += 1 runs (app.py:550, 602) in an iteration
\* that does not raise.
AugmentedBy(decoded, label_file) ==
    IF ~decoded THEN 0
    ELSE (IF GeoRuns(ParsedLabels(label_file)) THEN Len(GeoAugs) ELSE 0) + Len(PhotoAugs)

\* The output tree is kept as the sequence of writes made under the output root: a
\* path exists when some write names it, and holds what its last write put there.
ApplyWrites(out, ws) == out \o ws

EmptyTree == <<>>

\* What an existing output directory may hold before the run.
StaleTree ==
    ApplyWrites(EmptyTree, <<WriteOf("train", "images", "old.jpg", <<"train", "old.jpg">>,
                                     "stale", "")>>)

\* input_dir of the call; output_dir is another directory or the same one.
InputDir == "yolo"

OutputDirs == {"yolo_aug", InputDir}

\* data.yaml and classes.txt: <<>> while the file does not exist, <<content>> after.
NoYaml == [data_yaml |-> <<>>, classes_txt |-> <<>>]

\* A manifest file of the input root: <<>> when absent, else <<what yaml.safe_load
\* gives>>: a mapping with or without the key names, or something that is no mapping
\* (an empty file loads as None).
ManifestFiles ==
    { <<>>,
      <<[is_mapping |-> FALSE, nc |-> 0, names |-> <<>>]>>,
      <<[is_mapping |-> TRUE, nc |-> 2, names |-> << <<"cat1", "cat2">> >>]>>,
      <<[is_mapping |-> TRUE, nc |-> 2, names |-> << <<"cat2", "cat1">> >>]>>,
      <<[is_mapping |-> TRUE, nc |-> 2, names |-> <<>>]>> }

\* app.py:609-615: dataset.yaml is looked for first, then data.yaml.
InputYaml(dataset_yaml, data_yaml) == IF dataset_yaml # <<>> THEN dataset_yaml ELSE data_yaml

\* app.py:621-624: the carried-over mapping with its root and split paths rewritten.
OutputCfg(cfg, out_dir) ==
    [path |-> out_dir, train |-> "train/images", val |-> "valid/images",
     test |-> "test/images", nc |-> cfg.nc, names |-> cfg.names]

\* app.py:628-632: classes.txt, one name per line, written if the mapping has names.
ClassesTxt(cfg) == cfg.names

NoStats == [original_images |-> 0, augmented_images |-> 0, total_augmentations |-> 0,
            splits |-> <<>>]

NoSplitStats == [original |-> 0, augmented |-> 0]

AugParked ==
    /\ apc = "idle"
    /\ split_i = 0
    /\ img_files = <<>>
    /\ img_i = 0
    /\ split_stats = NoSplitStats
    /\ stats = NoStats
    /\ aug_out = EmptyTree
    /\ aug_yaml = NoYaml
    /\ aug_log = <<>>
    /\ aresult = <<FALSE, "">>
    /\ output_dir = "yolo_aug"
    /\ input_tree = "intact"
    /\ absent_splits = {}
    /\ input_manifest = <<>>

AugInit ==
    /\ apc = "setup"
    /\ split_i = 0
    /\ img_files = <<>>
    /\ img_i = 0
    /\ split_stats = NoSplitStats
    /\ stats = NoStats
    /\ aug_out \in {EmptyTree, StaleTree}
    /\ aug_yaml \in {NoYaml, [data_yaml |-> <<OutputCfg(
                                    [nc |-> 1, names |-> << <<"old">> >>], "yolo_aug")>>,
                              classes_txt |-> << <<"old">> >>]}
    /\ aug_out = EmptyTree <=> aug_yaml = NoYaml
    /\ aug_log = <<>>
    /\ aresult = <<FALSE, "">>
    /\ output_dir \in OutputDirs
    /\ output_dir = InputDir => aug_out = EmptyTree
    /\ input_tree = "intact"
    /\ absent_splits = {}
    /\ input_manifest = <<>>

\* except Exception as exc: return False, {"error": str(exc)}  (app.py:636-638)
AugRaise(what) ==
    /\ apc' = "failed"
    /\ aresult' = <<FALSE, what>>

\* shutil.rmtree(output_path), app.py:337-338, seen from the input root: the output
\* root exists whenever it is the input root, and the input's files go with it.
RmTree(out_dir, tree) == IF out_dir = InputDir THEN "removed" ELSE tree

\* app.py:334-402: remove an existing output tree, create the folders, set up stats.
\* fs_ok: the filesystem calls succeed.
AugSetup ==
    /\ apc = "setup"
    /\ \E fs_ok \in BOOLEAN :
          \/ /\ ~fs_ok
             /\ AugRaise("setup")
             /\ UNCHANGED <<aug_out, aug_yaml, stats, split_i, input_tree>>
          \/ /\ fs_ok
             /\ input_tree' = RmTree(output_dir, input_tree)
             /\ aug_out' = EmptyTree
             /\ aug_yaml' = NoYaml
             /\ stats' = [NoStats EXCEPT !.total_augmentations = TotalAugmentations]
             /\ split_i' = 1
             /\ apc' = "split"
             /\ UNCHANGED aresult
    /\ UNCHANGED <<img_files, img_i, split_stats, aug_log, output_dir, absent_splits, input_manifest>>
    /\ UNCHANGED <<conv_vars, label_vars, main_vars, box_vars, svc_vars, wait_vars>>

\* Variant: a split without images folder is listed as empty and handled like any other.
AugEnterSplit_lists_absent ==
    /\ apc = "split"
    /\ split_i <= Len(Splits)
    /\ \/ /\ input_tree = "intact"
          /\ absent_splits' = absent_splits \cup {Splits[split_i]}
          /\ img_files' = <<>>
          /\ split_stats' = NoSplitStats
          /\ img_i' = 1
          /\ apc' = "images"
          /\ UNCHANGED split_i
       \/ \E listing \in Listings(IF input_tree = "intact"
                                   THEN MaxAugImages - Len(aug_log) ELSE 0) :
             /\ img_files' = ListingFiles(listing)
             /\ split_stats' = [original |-> Len(listing), augmented |-> 0]
             /\ img_i' = 1
             /\ apc' = "images"
             /\ UNCHANGED <<split_i, absent_splits>>
    /\ UNCHANGED <<stats, aug_out, aug_yaml, aug_log, aresult, output_dir, input_tree, input_manifest>>
    /\ UNCHANGED <<conv_vars, label_vars, main_vars, box_vars, svc_vars, wait_vars>>

\* app.py:404-424: the next split; a split without images folder is passed over. When
\* the input root was removed at app.py:338, the folders made at 342 are the input's
\* and they are empty.
AugEnterSplit ==
    /\ apc = "split"
    /\ split_i <= Len(Splits)
    /\ \/ /\ input_tree = "intact"              \* if not img_dir.exists(): continue
          /\ split_i' = split_i + 1
          /\ absent_splits' = absent_splits \cup {Splits[split_i]}
          /\ UNCHANGED <<apc, img_files, img_i, split_stats>>
       \/ \E listing \in Listings(IF input_tree = "intact"
                                   THEN MaxAugImages - Len(aug_log) ELSE 0) :
             /\ img_files' = ListingFiles(listing)
             /\ split_stats' = [original |-> Len(listing), augmented |-> 0]
             /\ img_i' = 1
             /\ apc' = "images"
             /\ UNCHANGED <<split_i, absent_splits>>
    /\ UNCHANGED <<stats, aug_out, aug_yaml, aug_log, aresult, output_dir, input_tree, input_manifest>>
    /\ UNCHANGED <<conv_vars, label_vars, main_vars, box_vars, svc_vars, wait_vars>>

\* app.py:426-602: one iteration of the image loop. decoded: cv2.imread gave an
\* image; label_file: the label file read for it (not read when decoding failed).
AugImage ==
    /\ apc = "images"
    /\ img_i <= Len(img_files)
    /\ \E decoded \in BOOLEAN :
       \E label_file \in IF decoded THEN LabelFiles ELSE {<<>>} :
       \E outcome \in IF GeoWritten(decoded, label_file) THEN GeoOutcomes ELSE {"kept"} :
          LET split == Splits[split_i]
              f == img_files[img_i]
              raises == ImageRaises(decoded, label_file)
          IN  /\ aug_out' = ApplyWrites(aug_out, ImageWrites(split, f, decoded, label_file))
              /\ aug_log' = Append(aug_log,
                    [split |-> split, file |-> f, decoded |-> decoded,
                     label_file |-> label_file, raised |-> raises, outcome |-> outcome,
                     geo_labels |-> GeoLabelFile(decoded, label_file, outcome),
                     photo_labels |-> PhotoLabelFile(decoded, label_file)])
              /\ \/ /\ raises
                    /\ AugRaise("image")
                    /\ UNCHANGED <<img_i, split_stats>>
                 \/ /\ ~raises
                    /\ img_i' = img_i + 1
                    /\ split_stats' =
                          [split_stats EXCEPT !.augmented = @ + AugmentedBy(decoded, label_file)]
                    /\ UNCHANGED <<apc, aresult>>
    /\ UNCHANGED <<split_i, img_files, stats, aug_yaml, output_dir, input_tree, absent_splits,
                   input_manifest>>
    /\ UNCHANGED <<conv_vars, label_vars, main_vars, box_vars, svc_vars, wait_vars>>

\* app.py:604-606: the split's counts enter stats.
AugLeaveSplit ==
    /\ apc = "images"
    /\ img_i > Len(img_files)
    /\ stats' = [stats EXCEPT
                    !.splits = [s \in (DOMAIN stats.splits) \cup {Splits[split_i]} |->
                                   IF s = Splits[split_i] THEN split_stats ELSE stats.splits[s]],
                    !.original_images = @ + split_stats.original,
                    !.augmented_images = @ + split_stats.augmented]
    /\ split_i' = split_i + 1
    /\ apc' = "split"
    /\ UNCHANGED <<img_files, img_i, split_stats, aug_out, aug_yaml, aug_log, aresult>>
    /\ UNCHANGED <<output_dir, input_tree, absent_splits, input_manifest>>
    /\ UNCHANGED <<conv_vars, label_vars, main_vars, box_vars, svc_vars, wait_vars>>

\* app.py:608-634: carry the manifest over and return. dataset_yaml, data_yaml: the
\* two files of the input root.
AugFinish ==
    /\ apc = "split"
    /\ split_i > Len(Splits)
    /\ \E dataset_yaml, data_yaml \in ManifestFiles :
          LET input_yaml == IF input_tree = "intact"       \* candidate.exists()
                            THEN InputYaml(dataset_yaml, data_yaml)
                            ELSE <<>>
          IN  /\ input_manifest' = <<dataset_yaml, data_yaml>>
              /\ \/ /\ input_yaml = <<>>                     \* if input_yaml_path: not taken
                    /\ apc' = "done"
                    /\ aresult' = <<TRUE, "">>
                    /\ UNCHANGED aug_yaml
                 \/ /\ input_yaml # <<>>
                    /\ ~input_yaml[1].is_mapping             \* data_cfg["path"] = ... raises
                    /\ AugRaise("manifest")
                    /\ UNCHANGED aug_yaml
                 \/ /\ input_yaml # <<>>
                    /\ input_yaml[1].is_mapping
                    /\ aug_yaml' = [data_yaml |-> <<OutputCfg(input_yaml[1], output_dir)>>,
                                    classes_txt |-> ClassesTxt(input_yaml[1])]
                    /\ apc' = "done"
                    /\ aresult' = <<TRUE, "">>
    /\ UNCHANGED <<split_i, img_files, img_i, split_stats, stats, aug_out, aug_log>>
    /\ UNCHANGED <<output_dir, input_tree, absent_splits>>
    /\ UNCHANGED <<conv_vars, label_vars, main_vars, box_vars, svc_vars, wait_vars>>

AugNext == AugSetup \/ AugEnterSplit \/ AugImage \/ AugLeaveSplit \/ AugFinish

\* ------------------------------------------------------------------- main
\* main (app.py:829-868) calls the four step functions one after the other and has no
\* try: an exception raised by a step ends the run.
Stages == <<"convert", "augment", "train", "export">>

MainParked ==
    /\ mpc = "idle"
    /\ started = <<>>
    /\ succeeded = <<>>
    /\ mlog = <<>>
    /\ merror = ""

MainInit ==
    /\ mpc = "convert"
    /\ started = <<>>
    /\ succeeded = <<>>
    /\ mlog = <<>>
    /\ merror = ""

\* What unzip_and_convert_noninteractive gives step_coco_to_yolo, called with ratios
\* 0.7 and 0.2 (app.py:659-665): an exception, the failure value, or the counts of a
\* document of n images.
ConvResults ==
    {[raised |-> e, value |-> FailResult] : e \in {"BadZipFile", "FileNotFoundError"}}
    \cup {[raised |-> "", value |-> FailResult]}
    \cup {[raised |-> "",
           value |-> <<TRUE, Cardinality(TrainIds(ids, DefaultTrainRatio, DefaultValRatio)),
                       Cardinality(ValIds(ids, DefaultTrainRatio, DefaultValRatio)),
                       Cardinality(TestIds(ids, DefaultTrainRatio, DefaultValRatio)), <<>>>>] :
            ids \in {[i \in 1..n |-> i] : n \in 0..MaxImages}}

\* What augment_dataset_noninteractive gives step_augment_yolo for a dataset of n
\* images: (False, {error}) or (True, stats), every image read adding no, the
\* photometric or all derived images.
AugResults(n) ==
    {[ok |-> FALSE, error |-> e, original_images |-> 0, augmented_images |-> 0] :
        e \in {"setup", "image", "manifest"}}
    \cup {[ok |-> TRUE, error |-> "", original_images |-> o,
           augmented_images |-> p * Len(PhotoAugs) + g * TotalAugmentations] :
            o \in 0..n, p \in 0..n, g \in 0..n}

\* A step raises: the exception leaves main.
StepRaise(stage, exc) ==
    /\ started' = Append(started, stage)
    /\ mpc' = "aborted"
    /\ merror' = exc
    /\ UNCHANGED <<succeeded, mlog>>

\* A step returns: main moves on to the next call.
StepReturn(stage, next, entry) ==
    /\ started' = Append(started, stage)
    /\ succeeded' = Append(succeeded, stage)
    /\ mlog' = Append(mlog, entry)
    /\ mpc' = next
    /\ UNCHANGED merror

\* Variant: the success flag of the conversion is not looked at.
StepCocoToYolo_ignores_failure ==
    /\ mpc = "convert"
    /\ \E zip_is_file \in BOOLEAN, result \in ConvResults :
          \/ /\ ~zip_is_file
             /\ StepRaise("convert", "FileNotFoundError")
          \/ /\ zip_is_file
             /\ result.raised # ""
             /\ StepRaise("convert", result.raised)
          \/ /\ zip_is_file
             /\ result.raised = ""
             /\ ~result.value[1]
             /\ started' = Append(started, "convert")
             /\ mpc' = "augment"
             /\ UNCHANGED <<succeeded, mlog, merror>>
          \/ /\ zip_is_file
             /\ result.raised = ""
             /\ result.value[1]
             /\ StepReturn("convert", "augment",
                           [stage |-> "convert", yaml |-> "data.yaml",
                            counts |-> <<result.value[2], result.value[3], result.value[4]>>])
    /\ UNCHANGED <<conv_vars, label_vars, aug_vars, box_vars, svc_vars, wait_vars>>

\* step_coco_to_yolo, app.py:641-684, as called at app.py:847. A successful
\* conversion has written data.yaml, so the check at 673 finds it.
StepCocoToYolo ==
    /\ mpc = "convert"
    /\ \E zip_is_file \in BOOLEAN, result \in ConvResults :
          \/ /\ ~zip_is_file                              \* app.py:650-651
             /\ StepRaise("convert", "FileNotFoundError")
          \/ /\ zip_is_file
             /\ result.raised # ""                        \* raised by the call at 659
             /\ StepRaise("convert", result.raised)
          \/ /\ zip_is_file
             /\ result.raised = ""
             /\ ~result.value[1]                          \* app.py:666-667
             /\ StepRaise("convert", "RuntimeError")
          \/ /\ zip_is_file
             /\ result.raised = ""
             /\ result.value[1]
             /\ StepReturn("convert", "augment",
                           [stage |-> "convert", yaml |-> "data.yaml",
                            counts |-> <<result.value[2], result.value[3], result.value[4]>>])
    /\ UNCHANGED <<conv_vars, label_vars, aug_vars, box_vars, svc_vars, wait_vars>>

\* step_augment_yolo, app.py:687-725, as called at app.py:850: the dataset is the one
\* the conversion has just written, manifest included.
StepAugmentYolo ==
    /\ mpc = "augment"
    /\ LET counts == mlog[Len(mlog)].counts
       IN  \E result \in AugResults(counts[1] + counts[2] + counts[3]) :
             \/ /\ ~result.ok                             \* app.py:712-713
                /\ StepRaise("augment", "RuntimeError")
             \/ /\ result.ok
                /\ StepReturn("augment", "train",
                              [stage |-> "augment", yaml |-> "data.yaml",
                               counts |-> <<result.original_images, result.augmented_images, 0>>])
    /\ UNCHANGED <<conv_vars, label_vars, aug_vars, box_vars, svc_vars, wait_vars>>

\* step_train, app.py:728-793, as called at app.py:853. outcome: what model.train
\* does and leaves behind.
StepTrain ==
    /\ mpc = "train"
    /\ \E base_is_file \in BOOLEAN, outcome \in {"raised", "no_best", "best"} :
          \/ /\ ~base_is_file                             \* app.py:750-751
             /\ StepRaise("train", "FileNotFoundError")
          \/ /\ base_is_file
             /\ outcome = "raised"                        \* YOLO(...) or model.train
             /\ StepRaise("train", "TrainingError")
          \/ /\ base_is_file
             /\ outcome = "no_best"                       \* app.py:789-790
             /\ StepRaise("train", "FileNotFoundError")
          \/ /\ base_is_file
             /\ outcome = "best"
             /\ StepReturn("train", "export",
                           [stage |-> "train", yaml |-> "best.pt", counts |-> <<0, 0, 0>>])
    /\ UNCHANGED <<conv_vars, label_vars, aug_vars, box_vars, svc_vars, wait_vars>>

\* step_export_tflite, app.py:796-826, as called at app.py:865.
StepExportTflite ==
    /\ mpc = "export"
    /\ \E outcome \in {"raised", "no_file", "exported"} :
          \/ /\ outcome = "raised"                        \* model.export or the copy
             /\ StepRaise("export", "ExportError")
          \/ /\ outcome = "no_file"                       \* app.py:816-817
             /\ StepRaise("export", "FileNotFoundError")
          \/ /\ outcome = "exported"
             /\ StepReturn("export", "done",
                           [stage |-> "export", yaml |-> "best.tflite", counts |-> <<0, 0, 0>>])
    /\ UNCHANGED <<conv_vars, label_vars, aug_vars, box_vars, svc_vars, wait_vars>>

MainNext == StepCocoToYolo \/ StepAugmentYolo \/ StepTrain \/ StepExportTflite

\* ----------------------------------------- one bbox label through the entries
\* A bbox label alone in its label file, taken through catalog entries: each entry
\* reads the label, turns it into pixel corners (app.py:450-458), and writes the
\* label of the derived image (app.py:493-508, 563-576, 277-286). A later run on the
\* output reads the line the entry wrote. Coordinates are numerators over a unit:
\* BoxDen for a label as given, Million for a line read back; the corner and centre
\* formulas are linear in the coordinates, so the operators above apply to the
\* numerators, and the unit joins the denominators when the line is written.
BoxDen == 10

MaxSide == 2

MaxBoxRuns == 2

BoxShapes == (1..MaxSide) \X (1..MaxSide)

GivenBoxes == {[coords |-> c, unit |-> BoxDen] : c \in [1..4 -> 0..BoxDen]}

\* The parsed label: {"class": 0, "bbox": [cx, cy, bw, bh], "poly": None}.
OneBoxLabel(coords) == <<BboxLabel(0, coords)>>

\* The box has an extent and lies within the image, as bbox_params requires of the
\* boxes handed to a geometric entry.
InsideImage(lab) ==
    /\ lab.coords[3] > 0
    /\ lab.coords[4] > 0
    /\ 2 * lab.coords[1] - lab.coords[3] >= 0
    /\ 2 * lab.coords[1] + lab.coords[3] <= 2 * lab.unit
    /\ 2 * lab.coords[2] - lab.coords[4] >= 0
    /\ 2 * lab.coords[2] + lab.coords[4] <= 2 * lab.unit

\* transformed["bboxes"] of the entries hflip and vflip (app.py:346-347, 482-488):
\* HorizontalFlip mirrors the corners about the vertical axis of the image,
\* VerticalFlip about the horizontal one; the image keeps its shape.
Flipped(name, bboxes, shape, unit) ==
    LET w2 == 2 * shape[2] * unit
        h2 == 2 * shape[1] * unit
    IN  [i \in 1..Len(bboxes) |->
            IF name = "hflip"
            THEN <<w2 - bboxes[i][3], bboxes[i][2], w2 - bboxes[i][1], bboxes[i][4]>>
            ELSE <<bboxes[i][1], h2 - bboxes[i][4], bboxes[i][3], h2 - bboxes[i][2]>>]

\* new_labels of a flip entry, app.py:493-508.
FlipLabels(name, labels, shape, unit) ==
    LET t == Flipped(name, BboxesPascal(labels, shape), shape, unit)
    IN  [i \in 1..Len(t) |-> BoxToLabel(BboxesCls(labels)[i], t[i], shape[2], shape[1])]

\* The coordinates of the first line save_yolo_label writes for new_labels.
WrittenLine(new_labels, unit) ==
    SaveYoloLabel(<<BboxLabel(new_labels[1].class,
                              [k \in 1..4 |-> <<new_labels[1].bbox[1][k][1],
                                                new_labels[1].bbox[1][k][2] * unit>>])>>)[1].coords

BoxParked ==
    /\ box_label = [coords |-> <<0, 0, 0, 0>>, unit |-> 1]
    /\ box_shape = <<1, 1>>
    /\ box_log = <<>>

BoxInit ==
    /\ box_label \in GivenBoxes
    /\ box_shape \in BoxShapes
    /\ box_log = <<>>

\* The entry wrote the line; the next run reads it from the derived label file.
BoxWrite(name, written) ==
    /\ box_log' = Append(box_log, [entry |-> name, before |-> box_label, written |-> written])
    /\ box_label' = [coords |-> written, unit |-> Million]
    /\ UNCHANGED box_shape

\* A photometric entry, app.py:545-600: the boxes go to pixels and back.
BoxPhoto ==
    /\ Len(box_log) < MaxBoxRuns
    /\ BoxWrite("photo", WrittenLine(PhotoLabels(OneBoxLabel(box_label.coords), box_shape),
                                     box_label.unit))
    /\ UNCHANGED <<conv_vars, label_vars, aug_vars, main_vars, svc_vars, wait_vars>>

\* The entries hflip and vflip, app.py:468-544.
BoxFlip ==
    /\ Len(box_log) < MaxBoxRuns
    /\ InsideImage(box_label)
    /\ \E name \in {"hflip", "vflip"} :
          BoxWrite(name, WrittenLine(FlipLabels(name, OneBoxLabel(box_label.coords), box_shape,
                                                box_label.unit),
                                     box_label.unit))
    /\ UNCHANGED <<conv_vars, label_vars, aug_vars, main_vars, svc_vars, wait_vars>>

BoxNext == BoxPhoto \/ BoxFlip

\* ------------------------------------------------------------ the function app
\* trigger_training and get_training_status are the same in function_app.py and in
\* function_app_cpu.py, apart from the texts of the answer; the line numbers below
\* are those of function_app.py. Azure is the environment: what a call to it returns
\* or raises is drawn with \E. None is <<>>, any other value v is <<v>>.
MaxRequests == 2

\* The field of a request body: absent, the empty string, or a path.
BodyFields == {<<>>, <<"">>, <<"path">>}

\* Request bodies: not JSON at all; JSON that is no object (a list, null); an object
\* with or without the two required fields.
RequestBodies ==
    {[json |-> "invalid", coco_zip_path |-> <<>>, base_model_path |-> <<>>],
     [json |-> "list", coco_zip_path |-> <<>>, base_model_path |-> <<>>],
     [json |-> "null", coco_zip_path |-> <<>>, base_model_path |-> <<>>]}
    \cup [json : {"object"}, coco_zip_path : BodyFields, base_model_path : BodyFields]

\* not coco_zip_path or not base_model_path, function_app.py:237: None and "" are falsy.
Falsy(field) == field = <<>> \/ field = <<"">>

\* What begin_create_or_update and poller.result() come to, function_app.py:273-281:
\* an exception, or a result with its provisioning_state.
CreateOutcomes ==
    {[raised |-> TRUE, provisioning_state |-> <<>>]}
    \cup [raised : {FALSE}, provisioning_state : {<<>>, <<"Pending">>, <<"Succeeded">>}]

\* An answer: status_code 0 stands for no answer, the handler raised instead.
Answer(code, job_id, status) == [status_code |-> code, job_id |-> job_id, status |-> status]

\* trigger_training, function_app.py:198-324, as <<creation call, groups created,
\* answer>>; the creation call is "not_made", "returned" or "raised".
TriggerTraining(body, outcome) ==
    IF body.json = "invalid"                                  \* except ValueError: 400
    THEN <<"not_made", 0, Answer(400, <<>>, <<>>)>>
    ELSE IF body.json # "object"                              \* req_body.get raises,
    THEN <<"not_made", 0, Answer(0, <<>>, <<>>)>>             \* outside every try
    ELSE IF Falsy(body.coco_zip_path) \/ Falsy(body.base_model_path)
    THEN <<"not_made", 0, Answer(400, <<>>, <<>>)>>
    ELSE IF outcome.raised                                    \* except Exception: 500
    THEN <<"raised", 0, Answer(500, <<>>, <<>>)>>
    ELSE IF outcome.provisioning_state = <<>>                 \* None.lower() raises
    THEN <<"returned", 1, Answer(500, <<>>, <<>>)>>
    ELSE <<"returned", 1, Answer(202, <<"job">>, outcome.provisioning_state)>>

\* container_group as container_groups.get returns it, function_app.py:358-361:
\* current_state is <<>> when the group has no container, no instance_view or no
\* current_state.
ProvisioningStates == {"Pending", "Succeeded", "Failed"}

CurrentStates == [state : {"Waiting", "Running", "Terminated"}, exit_code : {<<>>, <<0>>, <<1>>}]

ContainerGroups ==
    [provisioning_state : ProvisioningStates,
     current_state : {<<>>} \cup {<<c>> : c \in CurrentStates}]

\* function_app.py:364-371
ContainerState(g) == IF g.current_state # <<>> THEN <<g.current_state[1].state>> ELSE <<>>

ExitCode(g) == IF g.current_state # <<>> THEN g.current_state[1].exit_code ELSE <<>>

\* Variant: a terminated container counts as completed whatever its exit code.
Status_any_exit(g) ==
    IF g.provisioning_state = "Succeeded"
    THEN IF ContainerState(g) = <<"Terminated">> THEN "completed" ELSE "running"
    ELSE IF g.provisioning_state = "Failed" THEN "failed" ELSE "provisioning"

\* response_data["status"], function_app.py:382-398
Status(g) ==
    IF g.provisioning_state = "Succeeded"
    THEN IF ContainerState(g) = <<"Terminated">>
         THEN IF ExitCode(g) = <<0>> THEN "completed" ELSE "failed"
         ELSE "running"
    ELSE IF g.provisioning_state = "Failed" THEN "failed" ELSE "provisioning"

\* get_training_status, function_app.py:328-415: job_id is the route parameter,
\* fetched the container group the lookup returned, <<>> when it raised.
GetTrainingStatus(job_id, fetched) ==
    IF job_id = <<>> \/ job_id = <<"">> THEN Answer(400, <<>>, <<>>)     \* if not job_id
    ELSE IF fetched = <<>> THEN Answer(500, <<>>, <<>>)                  \* except Exception
    ELSE Answer(200, job_id, <<Status(fetched[1])>>)

SvcParked ==
    /\ svc_log = <<>>
    /\ aci_groups = 0

SvcInit == SvcParked

\* One POST /api/train.
TriggerTrainingRequest ==
    /\ Len(svc_log) < MaxRequests
    /\ \E body \in RequestBodies, outcome \in CreateOutcomes :
          LET t == TriggerTraining(body, outcome)
          IN  /\ svc_log' = Append(svc_log, [route |-> "train", body |-> body,
                                             create_call |-> t[1], groups_before |-> aci_groups,
                                             groups_after |-> aci_groups + t[2],
                                             job_id |-> <<>>, fetched |-> <<>>,
                                             answer |-> t[3]])
              /\ aci_groups' = aci_groups + t[2]
    /\ UNCHANGED <<conv_vars, label_vars, aug_vars, main_vars, box_vars, wait_vars>>

\* One GET /api/status/{job_id}.
GetTrainingStatusRequest ==
    /\ Len(svc_log) < MaxRequests
    /\ \E job_id \in {<<>>, <<"job">>}, fetched \in {<<>>} \cup {<<g>> : g \in ContainerGroups} :
          svc_log' = Append(svc_log, [route |-> "status",
                                      body |-> CHOOSE b \in RequestBodies : b.json = "invalid",
                                      create_call |-> "not_made", groups_before |-> aci_groups,
                                      groups_after |-> aci_groups,
                                      job_id |-> job_id, fetched |-> fetched,
                                      answer |-> GetTrainingStatus(job_id, fetched)])
    /\ UNCHANGED aci_groups
    /\ UNCHANGED <<conv_vars, label_vars, aug_vars, main_vars, box_vars, wait_vars>>

SvcNext == TriggerTrainingRequest \/ GetTrainingStatusRequest

\* ------------------------------------------- the client, wait_for_completion
\* One call of YOLOTrainingClient.wait_for_completion (api_client.py:119-160) on a job
\* whose container group changes under it. Time is in whole seconds and stops
\* being counted at MaxClock.
MaxTimeout == 2

MaxPollInterval == 2

MaxClock == 4

Timeouts == {<<>>} \cup {<<n>> : n \in 0..MaxTimeout}

\* if timeout and (time.time() - start_time) > timeout, api_client.py:157:
\* None and 0 are falsy.
TimedOut(limit, now) == limit # <<>> /\ limit[1] # 0 /\ now > limit[1]

\* Variant: a failed job is polled on like a running one.
WaitOutcome_failed_polls(status, limit, now) ==
    IF status = "completed" THEN "returned"
    ELSE IF TimedOut(limit, now) THEN "TimeoutError"
    ELSE "sleep"

\* api_client.py:151-159: what the loop does with a polled status.
WaitOutcome(status, limit, now) ==
    IF status = "completed" THEN "returned"
    ELSE IF status = "failed" THEN "RuntimeError"
    ELSE IF TimedOut(limit, now) THEN "TimeoutError"
    ELSE "sleep"

WaitParked ==
    /\ wpc = "done"
    /\ timeout = <<>>
    /\ poll_interval = 1
    /\ elapsed = 0
    /\ last_status = <<>>
    /\ wresult = "none"
    /\ group = [provisioning_state |-> "Pending", current_state |-> <<>>]

WaitInit ==
    /\ wpc = "poll"
    /\ timeout \in Timeouts
    /\ poll_interval \in 1..MaxPollInterval
    /\ elapsed = 0                                            \* start_time = time.time()
    /\ last_status = <<>>
    /\ wresult = "none"
    /\ group \in ContainerGroups

\* One turn of the while loop: get_status (api_client.py:67-82) asks the function
\* app, which answers from the container group as it is now, or fails; the request
\* takes took seconds. callback, when given, is called with status_data and is
\* taken to return.
WaitPoll ==
    /\ wpc = "poll"
    /\ \E took \in 0..1, ok \in BOOLEAN :
          LET answer == GetTrainingStatus(<<"job">>, IF ok THEN <<group>> ELSE <<>>)
              now == Min2(elapsed + took, MaxClock)
              outcome == WaitOutcome(answer.status[1], timeout, now)
          IN  IF answer.status_code # 200                     \* response.raise_for_status()
              THEN /\ wresult' = "HTTPError"
                   /\ wpc' = "done"
                   /\ elapsed' = now
                   /\ UNCHANGED last_status
              ELSE /\ last_status' = answer.status
                   /\ IF outcome = "sleep"
                      THEN /\ elapsed' = Min2(now + poll_interval, MaxClock)   \* time.sleep
                           /\ UNCHANGED <<wpc, wresult>>
                      ELSE /\ elapsed' = now
                           /\ wresult' = outcome
                           /\ wpc' = "done"
    /\ UNCHANGED <<timeout, poll_interval, group>>
    /\ UNCHANGED <<conv_vars, label_vars, aug_vars, main_vars, box_vars, svc_vars>>

\* Azure moves the container group on: provisioning, the container's state, its
\* exit code.
GroupStep ==
    /\ group' \in ContainerGroups \ {group}
    /\ UNCHANGED <<wpc, timeout, poll_interval, elapsed, last_status, wresult>>
    /\ UNCHANGED <<conv_vars, label_vars, aug_vars, main_vars, box_vars, svc_vars>>

WaitNext == WaitPoll \/ GroupStep

\* ------------------------------------------------------------ specifications
InitSplit == ConvInit(SplitDocuments, Ratios, Ratios) /\ LabelParked /\ AugParked /\ MainParked /\ BoxParked /\ SvcParked /\ WaitParked

SpecSplit == InitSplit /\ [][ConvNext]_vars

InitConvert == ConvInit(Documents, DocRatios, DocRatios) /\ LabelParked /\ AugParked /\ MainParked /\ BoxParked /\ SvcParked /\ WaitParked

SpecConvert == InitConvert /\ [][ConvNext]_vars

InitReconvert ==
    ConvInit(Documents, {DefaultTrainRatio}, {DefaultValRatio}) /\ LabelParked /\ AugParked /\ MainParked /\ BoxParked /\ SvcParked /\ WaitParked

SpecReconvert == InitReconvert /\ [][ConvNext \/ ConvCall]_vars

\* One image with annotations of every shape, converted with the default ratios.
InitAnnotate ==
    /\ ConvInit(ShapeDocuments, {DefaultTrainRatio}, {DefaultValRatio})
    /\ LabelParked
    /\ AugParked
    /\ MainParked /\ BoxParked /\ SvcParked /\ WaitParked

SpecAnnotate == InitAnnotate /\ [][ConvNext]_vars

\* unzip_and_convert_noninteractive on an archive, with the default ratios.
InitUnzip ==
    /\ coco \in Documents
    /\ train_ratio = DefaultTrainRatio
    /\ val_ratio = DefaultValRatio
    /\ cpc = "unzip"
    /\ prior = <<>>
    /\ zip_file \in ZipFiles
    /\ ConvIdle
    /\ LabelParked
    /\ AugParked
    /\ MainParked /\ BoxParked /\ SvcParked /\ WaitParked

SpecUnzip == InitUnzip /\ [][ConvUnzip \/ ConvNext]_vars

InitMain ==
    ConvParked /\ LabelParked /\ AugParked /\ MainInit /\ BoxParked /\ SvcParked /\ WaitParked

SpecMain == InitMain /\ [][MainNext]_vars

InitLabel == ConvParked /\ LabelInit /\ AugParked /\ MainParked /\ BoxParked /\ SvcParked /\ WaitParked

SpecLabel == InitLabel /\ [][LabelNext]_vars

InitAugment == ConvParked /\ LabelParked /\ AugInit /\ MainParked /\ BoxParked /\ SvcParked /\ WaitParked

InitBox ==
    ConvParked /\ LabelParked /\ AugParked /\ MainParked /\ BoxInit /\ SvcParked /\ WaitParked

SpecBox == InitBox /\ [][BoxNext]_vars

InitService ==
    ConvParked /\ LabelParked /\ AugParked /\ MainParked /\ BoxParked /\ SvcInit /\ WaitParked

SpecService == InitService /\ [][SvcNext]_vars

InitWait ==
    ConvParked /\ LabelParked /\ AugParked /\ MainParked /\ BoxParked /\ SvcParked /\ WaitInit

\* The loop is the only thing the calling thread does: it takes its next turn.
SpecWait == InitWait /\ [][WaitNext]_vars /\ WF_vars(WaitPoll)

SpecAugment == InitAugment /\ [][AugNext]_vars

\* =========================================================== the claims
Card(S) == Cardinality(S)

SplitDone == cpc \notin {"load", "split"}

AllImageIds == Range(coco.images)

\* floor(n * r) for the rational r = <<numerator, denominator>>, by its definition.
FloorOf(n, r) == CHOOSE k \in 0..(n * r[1]) : k * r[2] <= n * r[1] /\ n * r[1] < (k + 1) * r[2]

\* C1: once the split is made, train_ids, val_ids and test_ids are pairwise disjoint,
\* their union is the set of all image ids of the document, and their sizes add up to
\* the number of images, for every image list and every pair of (non-negative) ratios.
C1_Partition ==
    SplitDone =>
        /\ train_ids \cap val_ids = {}
        /\ train_ids \cap test_ids = {}
        /\ val_ids \cap test_ids = {}
        /\ train_ids \cup val_ids \cup test_ids = AllImageIds
        /\ Card(train_ids) + Card(val_ids) + Card(test_ids) = Len(coco.images)

\* A finished conversion of three images with one image in each split.
C1_Witness ==
    /\ cpc = "done"
    /\ Card(train_ids) = 1 /\ Card(val_ids) = 1 /\ Card(test_ids) = 1

Ids10 == [i \in 1..10 |-> i]

ManifestNames == yolo_fs.data_yaml[1].names

\* rank of a category id among the document's ids, ascending, zero-based
RankOf(c) == Card({d \in Range(coco.categories) : d < c})

\* C3: after a conversion, the class index written in every label line equals the
\* position of the category's name in the manifest names list and in classes.txt,
\* and that position is the rank of the category id in ascending order.
C3_ClassIndexIsNamePosition ==
    cpc = "done" =>
        \A i \in 1..Len(img_to_anns) :
            LET g == img_to_anns[i]
                file == yolo_fs.labels[LabelPath(SplitOf(g.image_id, train_ids, val_ids),
                                                 g.image_id)]
            IN  \A j \in 1..Len(g.anns) :
                    /\ ManifestNames[file[j].cls + 1] = CatName(g.anns[j].category_id)
                    /\ yolo_fs.classes_txt[1][file[j].cls + 1] = CatName(g.anns[j].category_id)
                    /\ file[j].cls = RankOf(g.anns[j].category_id)

\* C4: two conversions of documents with the same set of category ids use the same
\* category-id to class-index mapping.
C4_MappingDeterministic ==
    \A k \in 1..Len(prior) :
        (/\ prior[k].loaded
         /\ coco.readable
         /\ cpc # "load"
         /\ prior[k].cats = Range(coco.categories))
        => category_mapping = prior[k].mapping

\* The numeric fields after the class index, when every token of the line is a number.
NumericLine == line # <<>> /\ IntOk(line[1]) /\ \A i \in 2..Len(line) : FloatOk(line[i])

FieldCount == Len(line) - 1

Field(i) == line[i + 1].val

\* C5: a line with exactly 4 numeric fields after the class index parses as a bbox
\* label holding the four fields (poly is None), never as a 2-point polygon; a line
\* with 6 numeric fields parses as a polygon of exactly 3 points in input order
\* (bbox is None).
C5_FourIsBboxSixIsPolygon ==
    (lpc # "call" /\ NumericLine) =>
        /\ FieldCount = 4 =>
              /\ lpc = "returned"
              /\ parsed.class = line[1].val
              /\ parsed.bbox = <<<<Field(1), Field(2), Field(3), Field(4)>>>>
              /\ parsed.poly = <<>>
        /\ FieldCount = 6 =>
              /\ lpc = "returned"
              /\ parsed.class = line[1].val
              /\ parsed.bbox = <<>>
              /\ parsed.poly = <<<< <<Field(1), Field(2)>>, <<Field(3), Field(4)>>,
                                    <<Field(5), Field(6)>> >>>>

\* A four-field line whose fields differ has been parsed.
C5_Witness ==
    /\ lpc = "returned"
    /\ NumericLine
    /\ FieldCount = 4
    /\ Field(1) # Field(2)
    /\ parsed.bbox # <<>>

\* C6: parsing fails whenever the number of floats after the class index is neither
\* exactly 4 nor an even count of at least 6, and no label is produced.
C6_MalformedCountRaises ==
    (/\ lpc # "call"
     /\ NumericLine
     /\ FieldCount # 4
     /\ ~(FieldCount % 2 = 0 /\ FieldCount >= 6))
    => lpc = "raised"

\* The writes in the output tree made for the image of log entry e.
WritesOf(e) ==
    SelectSeq(aug_out, LAMBDA w : w.src = <<e.split, Name(e.file)>>)

PathsOf(ws) == {ws[i].path : i \in 1..Len(ws)}

CatalogNames == Range(GeoAugs) \cup Range(PhotoAugs)

\* C7: after a successful run, every image that decoded has its verbatim copy and,
\* for every catalog entry, a derived image and a derived label file named
\* <stem>_<transform-name>; it contributes 1 + |catalog| image files, with or without
\* labels.
C7_OnePairPerCatalogEntry ==
    apc = "done" =>
        \A k \in 1..Len(aug_log) :
            LET e == aug_log[k]
                paths == PathsOf(WritesOf(e))
            IN  e.decoded =>
                  /\ <<e.split, "images", Name(e.file)>> \in paths
                  /\ \A a \in CatalogNames :
                        /\ <<e.split, "images", e.file.stem \o "_" \o a \o ".jpg">> \in paths
                        /\ <<e.split, "labels", e.file.stem \o "_" \o a \o ".txt">> \in paths
                  /\ Card({p \in paths : p[2] = "images"}) = 1 + TotalAugmentations

\* C8: no file written for a (source image, catalog entry) pair is written a second
\* time during the run, by another catalog entry, another source image or a verbatim
\* copy.
C8_DerivedNamesUnique ==
    \A i, j \in 1..Len(aug_out) :
        (i < j /\ aug_out[i].path = aug_out[j].path)
        => (aug_out[i].kind = "orig" /\ aug_out[j].kind = "orig")

\* C9: an error raised while one image is handled does not abort the run.
C9_PerImageErrorSkips ==
    \A k \in 1..Len(aug_log) : aug_log[k].raised => apc # "failed"

\* C10: an image that fails to decode gets no output at all (no verbatim copy, no
\* derived file), raises nothing, and the loop goes on to the next image: a run in
\* which no decoded image raises returns success with every decoded image copied.
C10_UndecodableSkipped ==
    /\ \A k \in 1..Len(aug_log) :
          ~aug_log[k].decoded =>
              /\ WritesOf(aug_log[k]) = <<>>
              /\ ~aug_log[k].raised
              /\ (k = Len(aug_log) /\ apc = "failed") => aresult[2] # "image"
    /\ apc = "images" =>
          /\ img_i = 1 + Card({k \in 1..Len(aug_log) : aug_log[k].split = Splits[split_i]})
          /\ \A k \in 1..Len(aug_log) : ~aug_log[k].raised
    /\ apc = "done" =>
          /\ aresult[1]
          /\ \A k \in 1..Len(aug_log) :
                aug_log[k].decoded =>
                    <<aug_log[k].split, "images", Name(aug_log[k].file)>>
                        \in PathsOf(WritesOf(aug_log[k]))

\* A successful run in which an image that did not decode is followed, in the same
\* split, by an image that was augmented.
C10_Witness ==
    /\ apc = "done"
    /\ Len(aug_log) = 2
    /\ ~aug_log[1].decoded
    /\ aug_log[2].decoded
    /\ aug_log[1].split = aug_log[2].split
    /\ Len(WritesOf(aug_log[2])) > 2

\* The lines of a source label file as save_yolo_label would print them unchanged.
SourceLines(label_file) ==
    LET ls == ParsedLabels(label_file)
    IN  [i \in 1..Len(ls) |->
            IF ls[i].bbox # <<>>
            THEN [cls |-> ls[i].class, kind |-> "bbox",
                  coords |-> [k \in 1..4 |-> ls[i].bbox[1][k] * Million]]
            ELSE [cls |-> ls[i].class, kind |-> "poly",
                  coords |-> [k \in 1..(2 * Len(ls[i].poly[1])) |->
                                 ls[i].poly[1][(k + 1) \div 2][2 - (k % 2)] * Million]]]

\* C11: the label file written for a photometric entry holds the source image's
\* labels unchanged: as many labels, in the same order, each with the same class, the
\* same kind and the same normalized geometry (to six decimals).
C11_PhotometricLabelsUnchanged ==
    \A k \in 1..Len(aug_log) :
        aug_log[k].photo_labels # <<>>
        => aug_log[k].photo_labels[1] = SourceLines(aug_log[k].label_file)

\* Where a source vertex (normalized) lies after the entry, inside the unit square:
\* unmoved for a photometric entry, moved and clamped for a geometric one.
ClampUnit(v) == IF v < 0 THEN 0 ELSE IF v > 1 THEN 1 ELSE v

PointAfter(kind, outcome, pt) ==
    IF kind = "photo" THEN pt
    ELSE IF outcome = "kept" THEN <<ClampUnit(pt[1]), ClampUnit(pt[2])>>
    ELSE <<ClampUnit(pt[1] + 2), ClampUnit(pt[2] - 2)>>

\* The bbox line covering the extent of the points pts: center and size.
ExtentLine(cls, pts) ==
    LET xs == {pts[k][1] : k \in 1..Len(pts)}
        ys == {pts[k][2] : k \in 1..Len(pts)}
        lo(S) == CHOOSE v \in S : \A u \in S : v <= u
        hi(S) == CHOOSE v \in S : \A u \in S : v >= u
    IN  [cls |-> cls, kind |-> "bbox",
         coords |-> <<((lo(xs) + hi(xs)) * Million) \div 2, ((lo(ys) + hi(ys)) * Million) \div 2,
                      (hi(xs) - lo(xs)) * Million, (hi(ys) - lo(ys)) * Million>>]

\* The polygon labels of the source come last in a derived file, one line each.
PolygonsKept(e, kind, file) ==
    LET polys == PolyLabels(ParsedLabels(e.label_file))
        boxes == BoxLabels(ParsedLabels(e.label_file))
        n == Len(file)
        np == Len(polys)
    IN  /\ n >= np
        /\ n - np <= Len(boxes)
        /\ \A j \in 1..(n - np) : file[j].kind = "bbox"
        /\ \A j \in 1..np :
              LET pts == polys[j].poly[1]
                  after == [i \in 1..Len(pts) |-> PointAfter(kind, e.outcome, pts[i])]
              IN  /\ file[n - np + j].cls = polys[j].class
                  /\ Len(pts) < 3 => file[n - np + j] = ExtentLine(polys[j].class, after)
                  /\ Len(pts) >= 3 =>
                        /\ file[n - np + j].kind = "poly"
                        /\ Len(file[n - np + j].coords) = 2 * Len(pts)

\* C12: in every derived label file, a polygon of fewer than 3 points is emitted as a
\* bbox label with the polygon's class and the extent of its points after the entry,
\* and every source polygon label has exactly one label (polygon or bbox) in the file.
C12_DegeneratePolygonBecomesBbox ==
    \A k \in 1..Len(aug_log) :
        /\ aug_log[k].geo_labels # <<>>
              => PolygonsKept(aug_log[k], "geo", aug_log[k].geo_labels[1])
        /\ aug_log[k].photo_labels # <<>>
              => PolygonsKept(aug_log[k], "photo", aug_log[k].photo_labels[1])

\* A finished run with an image whose one-point polygon came out as a bbox line in
\* the geometric and in the photometric label files.
C12_Witness ==
    /\ apc = "done"
    /\ \E k \in 1..Len(aug_log) :
          /\ aug_log[k].label_file = << <<OnePointLine>> >>
          /\ aug_log[k].outcome = "moved"
          /\ aug_log[k].geo_labels # <<>>
          /\ aug_log[k].geo_labels[1][1].kind = "bbox"
          /\ aug_log[k].photo_labels[1][1].kind = "bbox"

\* C18: the run never changes the input dataset: every file under the input root is
\* still there, for every choice of input and output directory.
C18_InputNeverMutated == input_tree = "intact"

PolyCoordsInUnit(file) ==
    \A j \in 1..Len(file) :
        file[j].kind = "poly"
        => \A c \in 1..Len(file[j].coords) :
               file[j].coords[c] >= 0 /\ file[j].coords[c] <= Million

\* C19: every polygon vertex written to a derived label file, by a geometric or a
\* photometric entry, has both coordinates in [0, 1].
C19_PolygonVerticesClamped ==
    \A k \in 1..Len(aug_log) :
        /\ aug_log[k].geo_labels # <<>> => PolyCoordsInUnit(aug_log[k].geo_labels[1])
        /\ aug_log[k].photo_labels # <<>> => PolyCoordsInUnit(aug_log[k].photo_labels[1])

\* C20: for a split whose images folder is absent nothing is written and nothing is
\* counted; the run goes on with the other splits (each one is counted or absent at
\* the end) and the absent folder is no cause of failure.
C20_AbsentSplitPassedOver ==
    /\ \A s \in absent_splits :
          /\ \A i \in 1..Len(aug_out) : aug_out[i].path[1] # s
          /\ \A k \in 1..Len(aug_log) : aug_log[k].split # s
          /\ s \notin DOMAIN stats.splits
    /\ (absent_splits # {} /\ apc = "failed") => aresult[2] \in {"image", "manifest"}
    /\ apc \in {"split", "images"} =>
          \A j \in 1..(split_i - 1) :
              Splits[j] \in absent_splits \cup DOMAIN stats.splits
    /\ apc = "done" =>
          /\ aresult[1]
          /\ \A j \in 1..Len(Splits) : Splits[j] \in absent_splits \cup DOMAIN stats.splits

\* A successful run over an input without valid/images whose train and test images
\* were augmented.
C20_Witness ==
    /\ apc = "done"
    /\ aresult[1]
    /\ absent_splits = {"valid"}
    /\ DOMAIN stats.splits = {"train", "test"}
    /\ stats.splits["train"].augmented > 0
    /\ stats.splits["test"].augmented > 0

\* The stems of the files a split's folders hold after the conversion.
LabelStems(split) ==
    {FileStem(i) : i \in {j \in 1..MaxDocImages : LabelPath(split, j) \in DOMAIN yolo_fs.labels}}

ImageStems(split) ==
    {FileStem(i) : i \in {j \in 1..MaxDocImages : ImagePath(split, j) \in yolo_fs.images}}

\* C13: after a successful conversion, in every split the stems of the label files
\* are the stems of the copied image files.
C13_LabelPerCopiedImage ==
    cpc = "done" => \A k \in 1..Len(Splits) : LabelStems(Splits[k]) = ImageStems(Splits[k])

\* The images converted into a split: image copied and label file written.
Converted(split) ==
    {i \in 1..MaxDocImages :
        ImagePath(split, i) \in yolo_fs.images /\ LabelPath(split, i) \in DOMAIN yolo_fs.labels}

\* C14: the counts returned by a successful conversion are, per split, the numbers
\* of images converted into the split.
C14_CountsAreConvertedImages ==
    cpc = "done" =>
        /\ cresult[2] = Card(Converted("train"))
        /\ cresult[3] = Card(Converted("valid"))
        /\ cresult[4] = Card(Converted("test"))

\* c is num / den printed with six decimals: within half a millionth of it.
Near(c, num, den) ==
    LET diff == c * den - num * Million
    IN  2 * (IF diff < 0 THEN -diff ELSE diff) <= den

\* ln is the line an annotation has to yield: a polygon line of the first ring
\* (x over width, y over height) when the polygon field is a non-empty list, else the
\* bbox line (cx, cy, w, h over width and height).
IsLineFor(ln, ann, size) ==
    IF ann.segmentation.kind = "list" /\ ann.segmentation.rings # <<>>
    THEN LET ring == ann.segmentation.rings[1]
         IN  /\ ln.kind = "poly"
             /\ Len(ln.coords) = Len(ring)
             /\ \A k \in 1..Len(ring) :
                   Near(ln.coords[k], ring[k], IF k % 2 = 1 THEN size.width ELSE size.height)
    ELSE /\ ln.kind = "bbox"
         /\ Len(ln.coords) = 4
         /\ Near(ln.coords[1], 2 * ann.bbox[1] + ann.bbox[3], 2 * size.width)
         /\ Near(ln.coords[2], 2 * ann.bbox[2] + ann.bbox[4], 2 * size.height)
         /\ Near(ln.coords[3], ann.bbox[3], size.width)
         /\ Near(ln.coords[4], ann.bbox[4], size.height)

\* C15: once the conversion has handled an image, its label file holds one line per
\* annotation, in annotation order: the polygon line of the first ring when the
\* annotation has a non-empty polygon field, the bbox line otherwise.
C15_OneLinePerAnnotation ==
    \A i \in 1..Len(img_to_anns) :
        (cpc \in {"convert", "done", "failed"} /\ (i < conv_i \/ cpc = "failed")
         /\ LabelPath(SplitOf(img_to_anns[i].image_id, train_ids, val_ids),
                      img_to_anns[i].image_id) \in DOMAIN yolo_fs.labels)
        => LET g == img_to_anns[i]
               file == yolo_fs.labels[LabelPath(SplitOf(g.image_id, train_ids, val_ids),
                                                g.image_id)]
           IN  /\ Len(file) = Len(g.anns)
               /\ \A j \in 1..Len(file) : IsLineFor(file[j], g.anns[j], DocSize)

\* C16: a failure of the conversion stage is reported as (False, 0, 0, 0, []) and
\* no exception reaches the caller, also when the conversion is entered through
\* unzip_and_convert_noninteractive.
C16_FailureIsAValue ==
    /\ craised = ""
    /\ cpc # "raised"
    /\ cpc = "failed" => cresult = FailResult

\* The first n stages.
FirstStages(n) == SubSeq(Stages, 1, n)

\* C17: main starts the stages in the order conversion, augmentation, training,
\* export, each at most once; a stage is started only after the one before it has
\* succeeded; after a stage has failed no further stage is started.
C17_StagesInOrder ==
    /\ Len(started) <= Len(Stages)
    /\ started = FirstStages(Len(started))
    /\ \A i \in 2..Len(started) : \E j \in 1..Len(succeeded) : succeeded[j] = started[i - 1]
    /\ \A i, j \in 1..Len(started) : started[i] = started[j] => i = j
    /\ mpc = "aborted" =>
          /\ started # <<>>
          /\ succeeded = FirstStages(Len(started) - 1)
    /\ mpc = "done" => succeeded = Stages /\ started = Stages
    /\ mpc \in Range(Stages) =>
          /\ succeeded = started
          /\ Len(started) < Len(Stages)
          /\ mpc = Stages[Len(started) + 1]

\* A run that converted and augmented and whose training failed: export never starts.
C17_Witness ==
    /\ mpc = "aborted"
    /\ started = <<"convert", "augment", "train">>
    /\ succeeded = <<"convert", "augment">>

\* The splits counted in stats, and sums over them.
CountedSplits == DOMAIN stats.splits

RECURSIVE SumOver(_, _)
SumOver(S, f) ==
    IF S = {} THEN 0
    ELSE LET x == CHOOSE y \in S : TRUE IN f[x] + SumOver(S \ {x}, f)

\* The image files a split's output images folder holds, by the kind of their writes.
ImagesWritten(split, kinds) ==
    {aug_out[i].path : i \in {j \in 1..Len(aug_out) :
        /\ aug_out[j].path[1] = split
        /\ aug_out[j].path[2] = "images"
        /\ aug_out[j].kind \in kinds}}

\* C23: after a successful run on an input with a manifest, the output data.yaml
\* exists with path set to the output root, train, val and test set to train/images,
\* valid/images and test/images, nc and names as in the input manifest, and
\* classes.txt lists those names in that order.
C23_ManifestCarriedOver ==
    (apc = "done" /\ input_manifest # <<>>) =>
        LET had == InputYaml(input_manifest[1], input_manifest[2])
        IN  had # <<>> =>
              /\ aug_yaml.data_yaml # <<>>
              /\ aug_yaml.data_yaml[1].path = output_dir
              /\ aug_yaml.data_yaml[1].train = "train/images"
              /\ aug_yaml.data_yaml[1].val = "valid/images"
              /\ aug_yaml.data_yaml[1].test = "test/images"
              /\ aug_yaml.data_yaml[1].nc = had[1].nc
              /\ aug_yaml.data_yaml[1].names = had[1].names
              /\ had[1].names # <<>> => aug_yaml.classes_txt = had[1].names

\* The same property for runs whose output root is not the input root.
C23_CarriedOverToAnotherRoot ==
    output_dir # InputDir => C23_ManifestCarriedOver

\* C29: after a successful run, the augmented count of each split is the number of
\* distinct derived image files in the split's output images folder, the global
\* augmented_images is the sum over the splits, and an image with at least one label
\* adds exactly total_augmentations.
C29_AugmentedCountsFiles ==
    apc = "done" =>
        /\ \A s \in CountedSplits :
              stats.splits[s].augmented = Card(ImagesWritten(s, {"geo", "photo"}))
        /\ stats.augmented_images = SumOver(CountedSplits, [s \in CountedSplits |-> stats.splits[s].augmented])
        /\ \A k \in 1..Len(aug_log) :
              (aug_log[k].decoded /\ Len(ParsedLabels(aug_log[k].label_file)) > 0)
              => Card({i \in 1..Len(aug_out) :
                         /\ aug_out[i].src = <<aug_log[k].split, Name(aug_log[k].file)>>
                         /\ aug_out[i].kind \in {"geo", "photo"}
                         /\ aug_out[i].path[2] = "images"}) = stats.total_augmentations

\* C30: after a successful run, the original count of each split is the number of
\* original images copied into the split's output images folder, and the global
\* original_images is the sum over the processed splits.
C30_OriginalCountsCopies ==
    apc = "done" =>
        /\ \A s \in CountedSplits :
              stats.splits[s].original = Card(ImagesWritten(s, {"orig"}))
        /\ stats.original_images = SumOver(CountedSplits, [s \in CountedSplits |-> stats.splits[s].original])

\* C24: the manifest of a successful conversion has train = train/images,
\* val = valid/images, test = test/images, names equal to the class-name list the
\* conversion returns, and nc equal to the length of names and to the number of
\* categories of the document.
C24_ConversionManifest ==
    cpc = "done" =>
        /\ yolo_fs.data_yaml # <<>>
        /\ yolo_fs.data_yaml[1].train = "train/images"
        /\ yolo_fs.data_yaml[1].val = "valid/images"
        /\ yolo_fs.data_yaml[1].test = "test/images"
        /\ yolo_fs.data_yaml[1].names = cresult[5]
        /\ yolo_fs.data_yaml[1].nc = Len(yolo_fs.data_yaml[1].names)
        /\ yolo_fs.data_yaml[1].nc = Len(coco.categories)

\* A finished conversion of a document with two categories, listed out of id order,
\* and at least one image.
C24_Witness ==
    /\ cpc = "done"
    /\ cresult[1]
    /\ coco.categories = <<2, 1>>
    /\ yolo_fs.data_yaml # <<>>
    /\ yolo_fs.data_yaml[1].nc = 2
    /\ Len(coco.images) > 0

\* What "{:.6f}" prints for a coordinate of a label.
Printed(lab, k) == Fmt6(lab.coords[k], lab.unit)

\* C22: for every bbox label and every image width and height, the conversion to pixel
\* corners and back with the same width and height, as a photometric entry does it,
\* writes the label it read, to six decimals.
C22_PixelRoundTrip ==
    \A i \in 1..Len(box_log) :
        box_log[i].entry = "photo" =>
            \A k \in 1..4 : box_log[i].written[k] = Printed(box_log[i].before, k)

\* A label as given, reaching outside the image, taken through a photometric entry
\* on an image that is not square.
C22_Witness ==
    /\ Len(box_log) > 0
    /\ box_log[1].entry = "photo"
    /\ box_log[1].before = [coords |-> <<3, 7, 9, 1>>, unit |-> BoxDen]
    /\ box_shape = <<2, 1>>

\* C21: hflip writes centre 1 - cx and leaves cy, w and h as they were (cx = 0.2 gives
\* 0.8); vflip writes 1 - cy and leaves cx, w and h (cy = 0.3 gives 0.7); the same
\* flip applied twice writes the original label.
C21_FlipMirrorsCentre ==
    /\ \A i \in 1..Len(box_log) :
          LET b == box_log[i].before
              out == box_log[i].written
          IN  /\ box_log[i].entry = "hflip" =>
                    /\ out = <<Million - Printed(b, 1), Printed(b, 2), Printed(b, 3), Printed(b, 4)>>
                    /\ 10 * b.coords[1] = 2 * b.unit => out[1] = 800000
              /\ box_log[i].entry = "vflip" =>
                    /\ out = <<Printed(b, 1), Million - Printed(b, 2), Printed(b, 3), Printed(b, 4)>>
                    /\ 10 * b.coords[2] = 3 * b.unit => out[2] = 700000
    /\ (/\ Len(box_log) = 2
        /\ box_log[1].entry = box_log[2].entry
        /\ box_log[1].entry \in {"hflip", "vflip"})
       => box_log[2].written = [k \in 1..4 |-> Printed(box_log[1].before, k)]

\* The box with centre (0.2, 0.3) flipped horizontally twice.
C21_Witness ==
    /\ Len(box_log) = 2
    /\ box_log[1].entry = "hflip"
    /\ box_log[2].entry = "hflip"
    /\ box_log[1].before = [coords |-> <<2, 3, 4, 2>>, unit |-> BoxDen]
    /\ box_log[1].written = <<800000, 300000, 400000, 200000>>
    /\ box_log[2].written = <<200000, 300000, 400000, 200000>>
    /\ box_shape = <<1, 2>>

\* The answers of the requests of one route.
AnswersOf(route) == {i \in 1..Len(svc_log) : svc_log[i].route = route}

Statuses == {"provisioning", "running", "completed", "failed"}

\* The status the claim gives a container group.
ClaimedStatus(g) ==
    CHOOSE st \in Statuses :
        /\ st = "completed" <=> (/\ g.provisioning_state = "Succeeded"
                                 /\ ContainerState(g) = <<"Terminated">>
                                 /\ ExitCode(g) = <<0>>)
        /\ st = "failed" <=> (\/ g.provisioning_state = "Failed"
                              \/ /\ g.provisioning_state = "Succeeded"
                                 /\ ContainerState(g) = <<"Terminated">>
                                 /\ ExitCode(g) # <<0>>)
        /\ st = "running" <=> (/\ g.provisioning_state = "Succeeded"
                               /\ ContainerState(g) # <<"Terminated">>)

LacksField(body) ==
    \/ body.json # "object"
    \/ Falsy(body.coco_zip_path)
    \/ Falsy(body.base_model_path)

\* C28: trigger_training creates no container group and answers 400 when the body is
\* not valid JSON or lacks a non-empty coco_zip_path or base_model_path; it answers
\* 202 with a job_id only after the creation call returned; it answers 500 when that
\* call fails.
C28_TriggerAnswers ==
    \A i \in AnswersOf("train") :
        /\ LacksField(svc_log[i].body) =>
              /\ svc_log[i].groups_after = svc_log[i].groups_before
              /\ svc_log[i].create_call = "not_made"
              /\ svc_log[i].answer.status_code = 400
        /\ svc_log[i].answer.status_code = 202 =>
              /\ svc_log[i].answer.job_id # <<>>
              /\ svc_log[i].create_call = "returned"
        /\ svc_log[i].create_call = "raised" => svc_log[i].answer.status_code = 500

\* The same for bodies that are not valid JSON or are JSON objects.
C28_ObjectBodies ==
    \A i \in AnswersOf("train") :
        svc_log[i].body.json \in {"invalid", "object"} =>
            /\ LacksField(svc_log[i].body) =>
                  /\ svc_log[i].groups_after = svc_log[i].groups_before
                  /\ svc_log[i].create_call = "not_made"
                  /\ svc_log[i].answer.status_code = 400
            /\ svc_log[i].answer.status_code = 202 =>
                  /\ svc_log[i].answer.job_id # <<>>
                  /\ svc_log[i].create_call = "returned"
            /\ svc_log[i].create_call = "raised" => svc_log[i].answer.status_code = 500

\* The container group is in a terminal condition: provisioning Succeeded with the
\* container Terminated, or provisioning Failed.
Terminal(g) ==
    \/ g.provisioning_state = "Succeeded" /\ ContainerState(g) = <<"Terminated">>
    \/ g.provisioning_state = "Failed"

\* What the wait does on completed and on failed, in every state.
ReturnsAndRaises ==
    /\ wresult = "returned" => last_status = <<"completed">>
    /\ wresult = "RuntimeError" <=> last_status = <<"failed">>

\* C25 as stated: the wait returns only on completed, raises RuntimeError exactly on
\* failed and otherwise keeps polling; whenever the container group eventually stays
\* in a terminal condition, the wait eventually ends with a return or a RuntimeError.
C25_ReturnOrRuntimeError ==
    /\ [](ReturnsAndRaises /\ (wresult \notin {"returned", "RuntimeError"} => wpc = "poll"))
    /\ (<>[]Terminal(group)) => <>(wresult \in {"returned", "RuntimeError"})

\* C25, amended: the wait returns only on completed, raises RuntimeError exactly on
\* failed, and otherwise keeps polling unless a status request fails (its error
\* ends the wait) or a given, non-zero timeout has run out on a status that is
\* neither (TimeoutError); whenever the container group eventually stays in a
\* terminal condition, the wait eventually ends.
C25_WaitEnds ==
    /\ [](/\ ReturnsAndRaises
          /\ wresult = "TimeoutError" =>
                /\ TimedOut(timeout, elapsed)
                /\ last_status \in {<<"running">>, <<"provisioning">>}
          /\ wresult \in {"none", "returned", "RuntimeError", "TimeoutError", "HTTPError"}
          /\ wresult = "none" <=> wpc = "poll")
    /\ (<>[]Terminal(group)) => <>(wpc = "done")

\* The wait slept on a status that was not final and returned on a later poll.
C25_Witness ==
    /\ wresult = "returned"
    /\ poll_interval = 2
    /\ elapsed >= 2
    /\ timeout = <<>>
    /\ Terminal(group)

\* C26: with a timeout other than None, 0 included, and a job whose status never
\* becomes completed or failed, the wait eventually raises TimeoutError (status
\* requests that fail aside).
C26_TimeoutEndsTheWait ==
    (/\ timeout # <<>>
     /\ [](Status(group) \notin {"completed", "failed"})
     /\ [](wresult # "HTTPError"))
    => <>(wresult = "TimeoutError")

\* The same for the timeouts above zero.
C26_PositiveTimeoutEndsTheWait ==
    (/\ timeout # <<>>
     /\ timeout # <<0>>
     /\ [](Status(group) \notin {"completed", "failed"})
     /\ [](wresult # "HTTPError"))
    => <>(wresult = "TimeoutError")

====
